---- MODULE Spec2Model ----
(***************************************************************************)
(* State-machine model of the ProCoHat admin console and user portal.      *)
(*                                                                         *)
(* One admin browser tab and one portal browser tab work against the       *)
(* shared document store `db`.  Every `await` of the source is a point     *)
(* where other events may interleave, so a handler with awaits is split    *)
(* into the step that dispatches the request and the steps that receive    *)
(* its outcome; the store's part of a request (the read or the commit)     *)
(* happens in the step that receives the outcome.                          *)
(*                                                                         *)
(* Strings the code inspects or joins character by character (usernames,   *)
(* emails, rejection reasons, MIME types, document names, CSV text) are    *)
(* sequences of one-character strings; strings that are only compared or   *)
(* copied are TLA+ strings.                                                *)
(***************************************************************************)
EXTENDS Integers, Sequences, FiniteSets, TLC

\* ------------------------------------------------------------------ bounds
MaxUsers == 2
MaxDocuments == 1
MaxClinics == 1
MaxInFlight == 2

\* --------------------------------------------------------------- JS values
Undefined == <<"undefined">>
Null == <<"null">>
ServerTimestamp == <<"serverTimestamp">>
\* AuthContext's user when nobody is signed in: user?.email is falsy.
NoUser == ""

Min(S) == CHOOSE m \in S : \A n \in S : m <= n
Max(S) == CHOOSE m \in S : \A n \in S : m >= n

\* String.prototype.trim on a sequence of characters.
Trim(s) ==
    LET keep == {i \in 1..Len(s) : s[i] # " "}
    IN  IF keep = {} THEN <<>> ELSE SubSeq(s, Min(keep), Max(keep))

\* String.prototype.startsWith.
StartsWith(s, p) == Len(s) >= Len(p) /\ SubSeq(s, 1, Len(p)) = p

\* Firestore returns the documents of a query ordered by document id.
RECURSIVE SortById(_)
SortById(S) ==
    IF S = {} THEN <<>>
    ELSE LET r == CHOOSE x \in S : \A y \in S : x.id <= y.id
         IN  <<r>> \o SortById(S \ {r})

\* getDocs(query(collection, where(f1,'==',v1), ...)): `filters` is the set
\* of <<field, value>> equality constraints of the query.
GetDocs(coll, filters) ==
    SortById({r \in coll : \A f \in filters : r[f[1]] = f[2]})

\* The ids of a collection's documents, and the ids still free.
Ids(coll) == {r.id : r \in coll}
FreeIds(coll, max) == (1..max) \ Ids(coll)

\* updateDoc(doc(db, coll, id), patch): the fields of `patch` replace those
\* of the stored document; other documents are untouched.
Patched(r, patch) ==
    [f \in DOMAIN r |-> IF f \in DOMAIN patch THEN patch[f] ELSE r[f]]
UpdateDoc(coll, id, patch) ==
    {IF r.id = id THEN Patched(r, patch) ELSE r : r \in coll}

\* deleteDoc(doc(db, coll, id)).
DeleteDoc(coll, id) == {r \in coll : r.id # id}

Range(s) == {s[i] : i \in 1..Len(s)}

\* A join that also puts the separator after the last item.
RECURSIVE JoinTrailing(_, _)
JoinTrailing(items, sep) ==
    IF items = <<>> THEN <<>> ELSE items[1] \o sep \o JoinTrailing(Tail(items), sep)

\* Array.prototype.join on an array of strings.
RECURSIVE Join(_, _)
Join(items, sep) ==
    IF items = <<>> THEN <<>>
    ELSE IF Len(items) = 1 THEN items[1]
    ELSE items[1] \o sep \o Join(Tail(items), sep)

\* ------------------------------------------------------------ input values
Admins == {"ann@corp.io", "bob@corp.io"}

AmyMail == <<"a", "@", "x", ".", "y">>
BobMail == <<"b", "@", "x", ".", "y">>

\* Error codes a store call can fail with.
StoreErrors == {"permission-denied", "unavailable"}

\* The statuses the bulk action dropdown offers.
BulkActions == {"approved", "rejected", "pending"}

\* ------------------------------------------------------------------- state
VARIABLES
    db,               \* the document store: [users, documents, clinics]
    user,             \* AuthContext: the signed-in admin's email, or NoUser
    loading,          \* AuthContext: the auth state is not known yet
    adminLocation,    \* route of the admin tab
    dash,             \* Dashboard component state
    um,               \* UserManagement component state
    dm,               \* DocumentManagement component state
    cm,               \* ClinicManagement component state
    bulk,             \* the running handleBulkUpdate call
    updatePromises,   \* per-account updateDoc calls still in flight
    toast,            \* the notice last shown in the admin tab
    sessionStorage,   \* portal tab: sessionStorage['userPortalEmail']
    portalLocation,   \* route of the portal tab
    pl,               \* UserPortalLogin component state
    pd,               \* UserPortalDashboard component state
    upload,           \* the running handleUploadImage / handleDeleteImage calls
    hosted,           \* number of images the image host has accepted
    portalToast,      \* the notice last shown in the portal tab
    download          \* the file each tab last handed to the browser for download

adminVars == <<user, loading, adminLocation, dash, um, dm, cm, bulk, updatePromises, toast>>
portalVars == <<sessionStorage, portalLocation, pl, pd, upload, hosted, portalToast>>
vars == <<db, adminVars, portalVars, download>>

Toast(title, text, n) == [title |-> title, text |-> text, n |-> n]
NoToast == Toast("", "", 0)

\* --------------------------------------------------- component initial state
EmptyFormData == [username |-> <<>>, email |-> <<>>, role |-> "", status |-> ""]
ZeroStats == [totalUsers |-> 0, pendingApprovals |-> 0, rejectedUsers |-> 0,
              totalDocuments |-> 0]

\* Dashboard useState initial values; fetchStats holds the position of the
\* running fetchStats call and its local snapshots.
DashInit ==
    [formData |-> EmptyFormData, submitting |-> FALSE, stats |-> ZeroStats,
     fetchStats |-> "idle", usersSnapshot |-> <<>>, pendingSnapshot |-> <<>>,
     rejectedSnapshot |-> <<>>, documentsSnapshot |-> <<>>]

\* UserManagement useState initial values; fetchUsers is "wait" while the
\* getDocs of fetchUsers is in flight.
UMInit ==
    [users |-> <<>>, loading |-> TRUE, selectedUsers |-> <<>>, bulkAction |-> "",
     rejectionReason |-> <<>>, submitting |-> FALSE, fetchUsers |-> "idle"]

BulkIdle == [pc |-> "idle", selectedUsers |-> <<>>]

\* DocumentManagement useState initial values, with the positions of its
\* fetches and of a running handleDelete.
DMInit ==
    [documentName |-> <<>>, selectedUsers |-> <<>>, approvedUsers |-> <<>>,
     documents |-> <<>>, loading |-> TRUE, submitting |-> FALSE,
     fetchApprovedUsers |-> "idle", fetchDocuments |-> "idle",
     pc |-> "idle", deleting |-> 0]

EmptyClinicForm == [clinicName |-> <<>>, doctorName |-> <<>>, clinicMail |-> <<>>]

\* ClinicManagement useState initial values (editingClinic is <<>> for null,
\* <<clinic>> otherwise).
CMInit ==
    [clinics |-> <<>>, loading |-> TRUE, submitting |-> FALSE,
     isModalOpen |-> FALSE, editingClinic |-> <<>>, formData |-> EmptyClinicForm,
     fetchClinics |-> "idle", pc |-> "idle", deleting |-> 0]

\* UserPortalLogin useState initial values; pc is "query" while getDocs is
\* in flight.  A message is the sequence of the parts it is put together
\* from, so '' is <<>>.
PLInit == [email |-> <<>>, error |-> <<>>, loading |-> FALSE, pc |-> "idle"]

\* UserPortalDashboard useState initial values, with the positions of the
\* two fetches its mount effect starts.
PDInit ==
    [mounted |-> FALSE, userData |-> <<>>, documents |-> <<>>, loading |-> TRUE,
     selectedFile |-> <<>>, uploading |-> FALSE, userImages |-> <<>>,
     editingImage |-> <<>>, sidebarOpen |-> FALSE,
     fetchUserData |-> "idle", fetchUserDocuments |-> "idle"]

\* No handleUploadImage and no handleDeleteImage call is running; `hosted`
\* counts the images the host has stored so far.
UploadIdle == [pc |-> "idle", file |-> <<>>, editingImage |-> <<>>, imageData |-> <<>>,
               del |-> "idle", delImage |-> <<>>]

\* Neither tab has offered a file yet (<<>>, or <<[name, text]>>).
NoDownload == [admin |-> <<>>, portal |-> <<>>]

Init ==
    /\ db = [users |-> {}, documents |-> {}, clinics |-> {}]
    /\ user = NoUser
    /\ loading = TRUE
    /\ adminLocation = "/login"
    /\ dash = DashInit
    /\ um = UMInit
    /\ dm = DMInit
    /\ cm = CMInit
    /\ bulk = BulkIdle
    /\ updatePromises = {}
    /\ toast = NoToast
    /\ sessionStorage = <<>>
    /\ portalLocation = "/user-portal-login"
    /\ pl = PLInit
    /\ pd = PDInit
    /\ upload = UploadIdle
    /\ hosted = 0
    /\ portalToast = NoToast
    /\ download = NoDownload

\* ----------------------------------------------------------------- queries
\* Each is the set of equality filters the code passes to query(); the
\* argument is user.email, or the portal email.
\* A pending count that forgets the status filter.
StatsPendingQueryAnyStatus(email) == {<<"createdBy", email>>}

StatsUsersQuery(email) == {<<"createdBy", email>>}
StatsPendingQuery(email) == {<<"createdBy", email>>, <<"status", "pending">>}
StatsRejectedQuery(email) == {<<"createdBy", email>>, <<"status", "rejected">>}
StatsDocumentsQuery(email) == {<<"createdBy", email>>}
\* fetchUsers without its where('createdBy', '==', user.email).
UsersQueryUnscoped(email) == {}
UsersQuery(email) == {<<"createdBy", email>>}
\* fetchApprovedUsers without its where('status', '==', 'approved').
ApprovedUsersQueryAnyStatus(email) == {<<"createdBy", email>>}

ApprovedUsersQuery(email) == {<<"createdBy", email>>, <<"status", "approved">>}
DocumentsQuery(email) == {<<"createdBy", email>>}
ClinicsQuery(email) == {<<"createdBy", email>>}

\* ------------------------------------------------- admin tab: auth, routing
AdminPages == {"/", "/user-management", "/document-management", "/clinic-management"}

\* A handler of the admin tab is between dispatching a store write and
\* handling its outcome.  The model lets the admin leave a page only when
\* none is, so that every dispatched write is followed to its outcome by
\* the component that issued it; reads in flight are abandoned with the
\* component (their completion would set state of an unmounted component).
AdminWriting ==
    dash.submitting \/ bulk.pc # "idle" \/ dm.pc # "idle" \/ cm.pc # "idle"

\* The component state after `url` is rendered: every page but the routed
\* one is unmounted, the routed one has run its mount effects.
DashAt(url) == IF url = "/" THEN [DashInit EXCEPT !.fetchStats = "users"] ELSE DashInit
UMAt(url) ==
    IF url = "/user-management" THEN [UMInit EXCEPT !.fetchUsers = "wait"] ELSE UMInit
DMAt(url) ==
    IF url = "/document-management"
    THEN [DMInit EXCEPT !.fetchApprovedUsers = "wait", !.fetchDocuments = "wait"]
    ELSE DMInit
CMAt(url) ==
    IF url = "/clinic-management" THEN [CMInit EXCEPT !.fetchClinics = "wait"] ELSE CMInit

\* Notices expire after a few seconds; the model dismisses the one shown at
\* the latest when the admin leaves the page.
Render(url) ==
    /\ adminLocation' = url
    /\ toast' = NoToast
    /\ dash' = DashAt(url)
    /\ um' = UMAt(url)
    /\ dm' = DMAt(url)
    /\ cm' = CMAt(url)

\* The component each admin route wraps in PrivateRoute.
PageOf(url) ==
    CASE url = "/" -> "Dashboard"
      [] url = "/user-management" -> "UserManagement"
      [] url = "/document-management" -> "DocumentManagement"
      [] url = "/clinic-management" -> "ClinicManagement"
Pages == {PageOf(url) : url \in AdminPages}

\* PrivateRoute: what it renders.  "null" stands for `return null` after
\* setLocation('/login').
PrivateRoute(authLoading, authUser, children) ==
    IF authLoading THEN "Loader2"
    ELSE IF authUser = NoUser THEN "null"
    ELSE children

\* An AppContent that routes to the pages without looking at the auth
\* state and without PrivateRoute.
AppContentUngated(authLoading, authUser, location) ==
    IF location \in AdminPages THEN PageOf(location) ELSE "Login"

\* AppContent: the component it renders at `location`.  A Route matches its
\* path exactly, so in the Switch of the signed-out branch only "/" and
\* the auth pages have a route.
AppContent(authLoading, authUser, location) ==
    IF authLoading THEN "Loader2"
    ELSE IF location = "/user-portal-dashboard" THEN "UserPortalDashboard"
    ELSE IF location \in {"/login", "/signup", "/user-portal-login"} \/ authUser = NoUser
    THEN CASE location = "/login" -> "Login"
           [] location = "/signup" -> "Signup"
           [] location = "/user-portal-login" -> "UserPortalLogin"
           [] location = "/" -> "Login"
           [] OTHER -> "NotFound"
    ELSE CASE location \in AdminPages ->
                  PrivateRoute(authLoading, authUser, PageOf(location))
           [] OTHER -> "NotFound"

\* The admin tab after AppContent has rendered at `url` under the given
\* auth state: a page is mounted only if AppContent renders it.
RenderApp(authLoading, authUser, url) ==
    LET shown == AppContent(authLoading, authUser, url)
    IN  IF shown \in Pages THEN Render(url)
        ELSE /\ adminLocation' = IF shown = "null" THEN "/login" ELSE url
             /\ toast' = NoToast
             /\ dash' = DashInit
             /\ um' = UMInit
             /\ dm' = DMInit
             /\ cm' = CMInit

\* The URLs the admin tab is opened at.
AdminUrls == AdminPages \cup {"/login"}

\* App: the tab is loaded at `url` (address bar, bookmark or reload).  The
\* AuthProvider starts without an identity and with loading set.
AppMount(url) ==
    /\ ~AdminWriting
    /\ url \in AdminUrls
    /\ user' = NoUser
    /\ loading' = TRUE
    /\ RenderApp(TRUE, NoUser, url)
    /\ UNCHANGED <<db, bulk, updatePromises, portalVars, download>>

\* AuthContext: the auth provider reports the persisted identity, or none,
\* and loading ends.
AuthStateChanged(a) ==
    /\ loading
    /\ user' = a
    /\ loading' = FALSE
    /\ RenderApp(FALSE, a, adminLocation)
    /\ UNCHANGED <<db, bulk, updatePromises, portalVars, download>>

\* Login page: an admin signs in and lands on the dashboard.
SignIn(a) ==
    /\ user = NoUser
    /\ AppContent(loading, user, adminLocation) = "Login"
    /\ user' = a
    /\ Render("/")
    /\ UNCHANGED <<db, loading, bulk, updatePromises, portalVars, download>>

\* AppSidebar.handleSignOut: await signOut(); setLocation('/login').  The
\* sidebar is rendered next to the admin pages only.
HandleSignOut ==
    /\ user # NoUser
    /\ AppContent(loading, user, adminLocation) \in Pages
    /\ ~AdminWriting
    /\ user' = NoUser
    /\ Render("/login")
    /\ UNCHANGED <<db, loading, bulk, updatePromises, portalVars, download>>

\* AppSidebar.handleNavigation(url).
HandleNavigation(url) ==
    /\ user # NoUser
    /\ AppContent(loading, user, adminLocation) \in Pages
    /\ ~AdminWriting
    /\ url # adminLocation
    /\ Render(url)
    /\ UNCHANGED <<db, user, loading, bulk, updatePromises, portalVars, download>>

\* --------------------------------------------------------------- Dashboard
\* The record addDoc writes for the account form.
NewAccount(id, formData, email) ==
    [id |-> id, username |-> formData.username, email |-> formData.email,
     role |-> formData.role, status |-> formData.status,
     createdAt |-> ServerTimestamp, createdBy |-> email,
     rejectionReason |-> Undefined, rejectedAt |-> Undefined, images |-> <<>>]

\* handleInputChange / handleSelectChange, taken together: the admin fills
\* the form.  username and email are `required` inputs (the email one of
\* type email); role and status are selects that may be left empty.
DashFillForm(formData) ==
    /\ AppContent(loading, user, adminLocation) = "Dashboard"
    /\ ~dash.submitting
    /\ dash' = [dash EXCEPT !.formData = formData]
    /\ UNCHANGED <<db, user, loading, adminLocation, um, dm, cm, bulk, updatePromises, toast,
                   portalVars, download>>

\* Dashboard.handleSubmit up to its await: the browser submits the form
\* only when the required inputs are filled.
DashHandleSubmit ==
    /\ AppContent(loading, user, adminLocation) = "Dashboard"
    /\ ~dash.submitting
    /\ dash.formData.username # <<>> /\ dash.formData.email # <<>>
    /\ Cardinality(db.users) < MaxUsers
    /\ dash' = [dash EXCEPT !.submitting = TRUE]
    /\ UNCHANGED <<db, user, loading, adminLocation, um, dm, cm, bulk, updatePromises, toast,
                   portalVars, download>>

\* addDoc resolved: the account is stored under a fresh id; success notice,
\* handleCancel resets the form, finally clears submitting.
DashSubmitOk(id) ==
    /\ dash.submitting
    /\ id \in FreeIds(db.users, MaxUsers)
    /\ db' = [db EXCEPT !.users = @ \cup {NewAccount(id, dash.formData, user)}]
    /\ toast' = Toast("Success", "User added successfully!", 0)
    /\ dash' = [dash EXCEPT !.formData = EmptyFormData, !.submitting = FALSE]
    /\ UNCHANGED <<user, loading, adminLocation, um, dm, cm, bulk, updatePromises, portalVars, download>>

\* addDoc rejected: failure notice, the form keeps its values.
DashSubmitFail ==
    /\ dash.submitting
    /\ toast' = Toast("Error", "Failed to add user. Please try again.", 0)
    /\ dash' = [dash EXCEPT !.submitting = FALSE]
    /\ UNCHANGED <<db, user, loading, adminLocation, um, dm, cm, bulk, updatePromises, portalVars, download>>

\* fetchStats: one step per awaited getDocs, in the order of the source.
DashFetchStatsStep ==
    /\ dash.fetchStats # "idle"
    /\ \/ /\ dash.fetchStats = "users"
          /\ dash' = [dash EXCEPT !.fetchStats = "pending",
                         !.usersSnapshot = GetDocs(db.users, StatsUsersQuery(user))]
       \/ /\ dash.fetchStats = "pending"
          /\ dash' = [dash EXCEPT !.fetchStats = "rejected",
                         !.pendingSnapshot = GetDocs(db.users, StatsPendingQuery(user))]
       \/ /\ dash.fetchStats = "rejected"
          /\ dash' = [dash EXCEPT !.fetchStats = "documents",
                         !.rejectedSnapshot = GetDocs(db.users, StatsRejectedQuery(user))]
       \/ /\ dash.fetchStats = "documents"
          /\ LET docs == GetDocs(db.documents, StatsDocumentsQuery(user))
             IN  dash' = [dash EXCEPT
                     !.fetchStats = "idle",
                     !.documentsSnapshot = docs,
                     !.stats = [totalUsers |-> Len(dash.usersSnapshot),
                                pendingApprovals |-> Len(dash.pendingSnapshot),
                                rejectedUsers |-> Len(dash.rejectedSnapshot),
                                totalDocuments |-> Len(docs)]]
    /\ UNCHANGED <<db, user, loading, adminLocation, um, dm, cm, bulk, updatePromises, toast,
                   portalVars, download>>

\* A getDocs of fetchStats rejected: the catch only logs; stats keep their
\* previous values.
DashFetchStatsFail ==
    /\ dash.fetchStats # "idle"
    /\ dash' = [dash EXCEPT !.fetchStats = "idle"]
    /\ UNCHANGED <<db, user, loading, adminLocation, um, dm, cm, bulk, updatePromises, toast,
                   portalVars, download>>


\* ---------------------------------------------------------- UserManagement
Reasons == {<<>>, <<" ">>, <<" ", "n">>}

\* The checkbox state the page renders for "select all".
AllSelected == Len(um.selectedUsers) = Len(um.users) /\ Len(um.users) > 0

\* Array.prototype.includes / filter on the selection.
Includes(seq, x) == x \in Range(seq)
Without(seq, x) == SelectSeq(seq, LAMBDA y : y # x)
RowIds(rows) == [i \in 1..Len(rows) |-> rows[i].id]



\* A handleSelectAll that selects every account of the store.
HandleSelectAllOfStore ==
    /\ adminLocation = "/user-management" /\ ~um.loading
    /\ um' = [um EXCEPT !.selectedUsers =
                 IF ~AllSelected THEN RowIds(GetDocs(db.users, {})) ELSE <<>>]
    /\ UNCHANGED <<db, user, loading, adminLocation, dash, dm, cm, bulk, updatePromises, toast,
                   portalVars, download>>

\* handleSelectAll(checked): the checkbox reports the negation of what it
\* shows.
HandleSelectAll ==
    /\ adminLocation = "/user-management" /\ ~um.loading
    /\ um' = [um EXCEPT !.selectedUsers =
                 IF ~AllSelected THEN RowIds(um.users) ELSE <<>>]
    /\ UNCHANGED <<db, user, loading, adminLocation, dash, dm, cm, bulk, updatePromises, toast,
                   portalVars, download>>

\* handleSelectUser(userId, checked) for the checkbox of a listed row.
HandleSelectUser(userId) ==
    /\ adminLocation = "/user-management" /\ ~um.loading
    /\ userId \in Range(RowIds(um.users))
    /\ um' = [um EXCEPT !.selectedUsers =
                 IF ~Includes(um.selectedUsers, userId)
                 THEN Append(um.selectedUsers, userId)
                 ELSE Without(um.selectedUsers, userId)]
    /\ UNCHANGED <<db, user, loading, adminLocation, dash, dm, cm, bulk, updatePromises, toast,
                   portalVars, download>>

\* The action dropdown (onValueChange = setBulkAction).
SetBulkAction(action) ==
    /\ adminLocation = "/user-management" /\ ~um.loading
    /\ action # um.bulkAction
    /\ um' = [um EXCEPT !.bulkAction = action]
    /\ UNCHANGED <<db, user, loading, adminLocation, dash, dm, cm, bulk, updatePromises, toast,
                   portalVars, download>>

\* The reason input: rendered when the action is 'rejected', disabled while
\* submitting.
SetRejectionReason(reason) ==
    /\ adminLocation = "/user-management" /\ ~um.loading
    /\ um.bulkAction = "rejected" /\ ~um.submitting
    /\ reason # um.rejectionReason
    /\ um' = [um EXCEPT !.rejectionReason = reason]
    /\ UNCHANGED <<db, user, loading, adminLocation, dash, dm, cm, bulk, updatePromises, toast,
                   portalVars, download>>

\* A handleBulkUpdate without the check of the rejection reason.
BulkWarningNoReason(bulkAction, selectedUsers, rejectionReason) ==
    IF bulkAction = "" THEN "Please select an action."
    ELSE IF Len(selectedUsers) = 0 THEN "Please select at least one user."
    ELSE ""

\* The early returns of handleBulkUpdate: the warning it shows, "" if none.
BulkWarning(bulkAction, selectedUsers, rejectionReason) ==
    IF bulkAction = "" THEN "Please select an action."
    ELSE IF Len(selectedUsers) = 0 THEN "Please select at least one user."
    ELSE IF bulkAction = "rejected" /\ Trim(rejectionReason) = <<>>
         THEN "Please provide a reason for rejection."
    ELSE ""

\* A handleBulkUpdate that leaves the reason and its timestamp alone when
\* the target status is not 'rejected'.
BulkUpdateDataKeepReason(bulkAction, rejectionReason) ==
    IF bulkAction = "rejected"
    THEN [status |-> bulkAction, rejectionReason |-> rejectionReason,
          rejectedAt |-> ServerTimestamp]
    ELSE [status |-> bulkAction]

\* The patch handleBulkUpdate builds for every selected account.
BulkUpdateData(bulkAction, rejectionReason) ==
    IF bulkAction = "rejected"
    THEN [status |-> bulkAction, rejectionReason |-> rejectionReason,
          rejectedAt |-> ServerTimestamp]
    ELSE [status |-> bulkAction, rejectionReason |-> Null, rejectedAt |-> Null]

\* The updateDoc calls of one batch.  Calls of an earlier batch that are
\* still in flight lose the mark "current".
Dispatched(selectedUsers, updateData) ==
    {[userId |-> id, updateData |-> updateData, batch |-> "current"] :
        id \in Range(selectedUsers)}
Earlier(promises) == {[p EXCEPT !.batch = "earlier"] : p \in promises}

\* handleBulkUpdate up to `await Promise.all(updatePromises)`.  The Submit
\* button is disabled while submitting or with an empty selection.  At most
\* MaxInFlight updateDoc calls are in flight at a time.
HandleBulkUpdate ==
    /\ adminLocation = "/user-management" /\ ~um.loading
    /\ ~um.submitting /\ Len(um.selectedUsers) > 0
    /\ Cardinality(updatePromises) + Len(um.selectedUsers) <= MaxInFlight
    /\ LET warning == BulkWarning(um.bulkAction, um.selectedUsers, um.rejectionReason)
       IN  IF warning # ""
           THEN /\ toast' = Toast("Warning", warning, 0)
                /\ UNCHANGED <<um, bulk, updatePromises>>
           ELSE /\ um' = [um EXCEPT !.submitting = TRUE]
                /\ bulk' = [pc |-> "awaitAll", selectedUsers |-> um.selectedUsers]
                /\ updatePromises' =
                       Earlier(updatePromises) \cup
                       Dispatched(um.selectedUsers,
                                  BulkUpdateData(um.bulkAction, um.rejectionReason))
                /\ UNCHANGED toast
    /\ UNCHANGED <<db, user, loading, adminLocation, dash, dm, cm, portalVars, download>>

\* Promise.all(updatePromises) is settled for the running call: it fulfils
\* when every promise of the batch has fulfilled.
AllFulfilled(promises) == \A p \in promises : p.batch # "current"

\* A commit that also takes the account out of the documents it is
\* assigned to.
UpdateDocOkUnassign(p) ==
    /\ p \in updatePromises
    /\ db' = [db EXCEPT !.users = UpdateDoc(@, p.userId, p.updateData),
                        !.documents = {[d EXCEPT !.assignedUsers =
                                           SelectSeq(@, LAMBDA u : u.id # p.userId)] :
                                       d \in @}]
    /\ updatePromises' = updatePromises \ {p}
    /\ IF bulk.pc = "awaitAll" /\ p.batch = "current"
          /\ AllFulfilled(updatePromises \ {p})
       THEN /\ toast' = Toast("Success", "user(s) updated successfully!",
                              Len(bulk.selectedUsers))
            /\ bulk' = [bulk EXCEPT !.pc = "refetch"]
            /\ um' = [um EXCEPT !.fetchUsers = "wait"]
       ELSE UNCHANGED <<toast, bulk, um>>
    /\ UNCHANGED <<user, loading, adminLocation, dash, dm, cm, portalVars, download>>

\* One updateDoc commits.  If it was the last of the running call's batch,
\* Promise.all fulfils and the call goes on: success notice, then
\* `await fetchUsers()`.
UpdateDocOk(p) ==
    /\ p \in updatePromises
    /\ db' = [db EXCEPT !.users = UpdateDoc(@, p.userId, p.updateData)]
    /\ updatePromises' = updatePromises \ {p}
    /\ IF bulk.pc = "awaitAll" /\ p.batch = "current"
          /\ AllFulfilled(updatePromises \ {p})
       THEN /\ toast' = Toast("Success", "user(s) updated successfully!",
                              Len(bulk.selectedUsers))
            /\ bulk' = [bulk EXCEPT !.pc = "refetch"]
            /\ um' = [um EXCEPT !.fetchUsers = "wait"]
       ELSE UNCHANGED <<toast, bulk, um>>
    /\ UNCHANGED <<user, loading, adminLocation, dash, dm, cm, portalVars, download>>

\* A failure handling that writes the accounts of the batch back to
\* 'pending'.
UpdateDocFailRollback(p) ==
    /\ p \in updatePromises
    /\ updatePromises' = updatePromises \ {p}
    /\ IF bulk.pc = "awaitAll" /\ p.batch = "current"
       THEN /\ toast' = Toast("Error", "Failed to update users.", 0)
            /\ bulk' = BulkIdle
            /\ um' = [um EXCEPT !.submitting = FALSE]
            /\ db' = [db EXCEPT !.users =
                         {IF r.id \in Range(bulk.selectedUsers)
                          THEN [r EXCEPT !.status = "pending"] ELSE r : r \in @}]
       ELSE UNCHANGED <<toast, bulk, um, db>>
    /\ UNCHANGED <<user, loading, adminLocation, dash, dm, cm, portalVars, download>>

\* One updateDoc fails.  Promise.all rejects with the first rejection, so
\* the running call goes to its catch and finally at once.
UpdateDocFail(p) ==
    /\ p \in updatePromises
    /\ updatePromises' = updatePromises \ {p}
    /\ IF bulk.pc = "awaitAll" /\ p.batch = "current"
       THEN /\ toast' = Toast("Error", "Failed to update users.", 0)
            /\ bulk' = BulkIdle
            /\ um' = [um EXCEPT !.submitting = FALSE]
       ELSE UNCHANGED <<toast, bulk, um>>
    /\ UNCHANGED <<db, user, loading, adminLocation, dash, dm, cm, portalVars, download>>

\* A handleBulkUpdate that keeps the selection after the refetch.
AfterRefetchKeepSelection(u) ==
    IF bulk.pc = "refetch"
    THEN [u EXCEPT !.bulkAction = "", !.rejectionReason = <<>>, !.submitting = FALSE]
    ELSE u

\* What handleBulkUpdate does after `await fetchUsers()` returned: clear
\* the selection, the action and the reason; finally clear submitting.
AfterRefetch(u) ==
    IF bulk.pc = "refetch"
    THEN [u EXCEPT !.selectedUsers = <<>>, !.bulkAction = "",
                   !.rejectionReason = <<>>, !.submitting = FALSE]
    ELSE u

\* fetchUsers: getDocs resolved.
FetchUsersOk ==
    /\ um.fetchUsers = "wait"
    /\ um' = AfterRefetch([um EXCEPT !.users = GetDocs(db.users, UsersQuery(user)),
                                     !.loading = FALSE, !.fetchUsers = "idle"])
    /\ bulk' = BulkIdle
    /\ UNCHANGED <<db, user, loading, adminLocation, dash, dm, cm, updatePromises, toast,
                   portalVars, download>>

\* fetchUsers: getDocs rejected with `code`, which the catch does not look
\* at; the list is left as it was.
FetchUsersFail(code) ==
    /\ um.fetchUsers = "wait"
    /\ um' = AfterRefetch([um EXCEPT !.loading = FALSE, !.fetchUsers = "idle"])
    /\ bulk' = BulkIdle
    /\ toast' = Toast("Error", "Failed to load users.", 0)
    /\ UNCHANGED <<db, user, loading, adminLocation, dash, dm, cm, updatePromises, portalVars, download>>


\* ------------------------------------------------------ DocumentManagement
DocumentNames == {<<" ">>, <<"D">>}

\* The option fetchApprovedUsers builds for an account (the display label
\* is left out: it is derived from username and email and never read back).
Option(account) ==
    [value |-> account.id, email |-> account.email, username |-> account.username]
Options(accounts) == [i \in 1..Len(accounts) |-> Option(accounts[i])]

\* What the multi-select can hand to setSelectedUsers: the offered options,
\* each at most once, in the order they were picked.
Selections(options) ==
    {sel \in UNION {[1..n -> Range(options)] : n \in 0..Len(options)} :
        \A i, j \in 1..Len(sel) : i # j => sel[i] # sel[j]}

\* The record handleSubmit passes to addDoc.
NewDocument(id, documentName, selectedUsers, email) ==
    [id |-> id, documentName |-> Trim(documentName),
     assignedUsers |-> [i \in 1..Len(selectedUsers) |->
                           [id |-> selectedUsers[i].value,
                            username |-> selectedUsers[i].username,
                            email |-> selectedUsers[i].email]],
     createdAt |-> ServerTimestamp, createdBy |-> email]

\* A check that looks at the name only.
DocumentWarningNameOnly(documentName, selectedUsers) ==
    IF Trim(documentName) = <<>> THEN "Please enter a document name." ELSE ""

\* The early returns of DocumentManagement.handleSubmit: the warning shown,
\* "" if none.
DocumentWarning(documentName, selectedUsers) ==
    IF Trim(documentName) = <<>> THEN "Please enter a document name."
    ELSE IF Len(selectedUsers) = 0 THEN "Please select at least one approved user."
    ELSE ""

DMUsable == adminLocation = "/document-management" /\ ~dm.loading

\* fetchApprovedUsers: getDocs resolved.
FetchApprovedUsersOk ==
    /\ dm.fetchApprovedUsers = "wait"
    /\ dm' = [dm EXCEPT !.fetchApprovedUsers = "idle",
                 !.approvedUsers = Options(GetDocs(db.users, ApprovedUsersQuery(user)))]
    /\ UNCHANGED <<db, user, loading, adminLocation, dash, um, cm, bulk, updatePromises, toast,
                   portalVars, download>>

\* fetchApprovedUsers: getDocs rejected.
FetchApprovedUsersFail ==
    /\ dm.fetchApprovedUsers = "wait"
    /\ dm' = [dm EXCEPT !.fetchApprovedUsers = "idle"]
    /\ toast' = Toast("Error", "Failed to load approved users.", 0)
    /\ UNCHANGED <<db, user, loading, adminLocation, dash, um, cm, bulk, updatePromises,
                   portalVars, download>>

\* What the handler that awaited fetchDocuments does when it returns:
\* handleSubmit's finally clears submitting; handleDelete just ends.
AfterFetchDocuments(d) ==
    IF d.pc = "refetch" THEN [d EXCEPT !.pc = "idle", !.submitting = FALSE]
    ELSE IF d.pc = "refetchAfterDelete" THEN [d EXCEPT !.pc = "idle"]
    ELSE d

\* fetchDocuments: getDocs resolved.
FetchDocumentsOk ==
    /\ dm.fetchDocuments = "wait"
    /\ dm' = AfterFetchDocuments(
                 [dm EXCEPT !.fetchDocuments = "idle", !.loading = FALSE,
                     !.documents = GetDocs(db.documents, DocumentsQuery(user))])
    /\ UNCHANGED <<db, user, loading, adminLocation, dash, um, cm, bulk, updatePromises, toast,
                   portalVars, download>>

\* fetchDocuments: getDocs rejected with `code`; permission-denied shows no
\* notice, and the list is emptied either way.
FetchDocumentsFail(code) ==
    /\ dm.fetchDocuments = "wait"
    /\ dm' = AfterFetchDocuments(
                 [dm EXCEPT !.fetchDocuments = "idle", !.loading = FALSE,
                     !.documents = <<>>])
    /\ toast' = IF code # "permission-denied"
                THEN Toast("Error", "Failed to load documents.", 0)
                ELSE toast
    /\ UNCHANGED <<db, user, loading, adminLocation, dash, um, cm, bulk, updatePromises,
                   portalVars, download>>

\* The name input (disabled while submitting).
SetDocumentName(name) ==
    /\ DMUsable /\ ~dm.submitting
    /\ name # dm.documentName
    /\ dm' = [dm EXCEPT !.documentName = name]
    /\ UNCHANGED <<db, user, loading, adminLocation, dash, um, cm, bulk, updatePromises, toast,
                   portalVars, download>>

\* The multi-select (disabled while submitting): onChange = setSelectedUsers.
SetSelectedUsers(sel) ==
    /\ DMUsable /\ ~dm.submitting
    /\ sel \in Selections(dm.approvedUsers)
    /\ sel # dm.selectedUsers
    /\ dm' = [dm EXCEPT !.selectedUsers = sel]
    /\ UNCHANGED <<db, user, loading, adminLocation, dash, um, cm, bulk, updatePromises, toast,
                   portalVars, download>>

\* DocumentManagement.handleSubmit up to `await addDoc`.
DMHandleSubmit ==
    /\ DMUsable /\ ~dm.submitting /\ dm.pc = "idle"
    /\ LET warning == DocumentWarning(dm.documentName, dm.selectedUsers)
       IN  IF warning # ""
           THEN /\ toast' = Toast("Warning", warning, 0)
                /\ UNCHANGED dm
           ELSE /\ Cardinality(db.documents) < MaxDocuments
                /\ dm' = [dm EXCEPT !.submitting = TRUE, !.pc = "addDoc"]
                /\ UNCHANGED toast
    /\ UNCHANGED <<db, user, loading, adminLocation, dash, um, cm, bulk, updatePromises,
                   portalVars, download>>

\* addDoc resolved: the document is stored, the form is reset and the list
\* refetched.
DMSubmitOk(id) ==
    /\ dm.pc = "addDoc"
    /\ id = Min(FreeIds(db.documents, MaxDocuments))
    /\ db' = [db EXCEPT !.documents =
                 @ \cup {NewDocument(id, dm.documentName, dm.selectedUsers, user)}]
    /\ toast' = Toast("Success", "Document created successfully!", 0)
    /\ dm' = [dm EXCEPT !.documentName = <<>>, !.selectedUsers = <<>>,
                 !.fetchDocuments = "wait", !.pc = "refetch"]
    /\ UNCHANGED <<user, loading, adminLocation, dash, um, cm, bulk, updatePromises, portalVars, download>>

\* addDoc rejected.
DMSubmitFail ==
    /\ dm.pc = "addDoc"
    /\ toast' = Toast("Error", "Failed to create document.", 0)
    /\ dm' = [dm EXCEPT !.submitting = FALSE, !.pc = "idle"]
    /\ UNCHANGED <<db, user, loading, adminLocation, dash, um, cm, bulk, updatePromises,
                   portalVars, download>>

\* The string literals of handleDownload.
HeaderUsername == <<"U", "s", "e", "r", "n", "a", "m", "e">>
HeaderEmail == <<"E", "m", "a", "i", "l">>
DotCsv == <<".", "c", "s", "v">>

\* DocumentManagement.handleDownload(doc) of a listed document: the CSV text
\* goes into a Blob that a link with the download name hands to the browser.
DMHandleDownload(doc) ==
    /\ DMUsable
    /\ doc \in Range(dm.documents)
    /\ LET headers == <<HeaderUsername, HeaderEmail>>
           rows == [i \in 1..Len(doc.assignedUsers) |->
                       <<doc.assignedUsers[i].username, doc.assignedUsers[i].email>>]
           csvContent == Join(<<Join(headers, <<",">>)>> \o
                              [i \in 1..Len(rows) |-> Join(rows[i], <<",">>)], <<"\n">>)
       IN  download' = [download EXCEPT !.admin =
               <<[doc |-> doc.id, name |-> doc.documentName \o DotCsv,
                  text |-> csvContent]>>]
    /\ toast' = Toast("Success", "CSV downloaded successfully!", 0)
    /\ UNCHANGED <<db, user, loading, adminLocation, dash, um, dm, cm, bulk, updatePromises,
                   portalVars>>

\* DocumentManagement.handleDelete(documentId) of a listed document, up to
\* `await deleteDoc`; declining the confirm dialog returns at once.
DMHandleDelete(documentId, confirmed) ==
    /\ DMUsable /\ dm.pc = "idle"
    /\ documentId \in Range(RowIds(dm.documents))
    /\ dm' = IF confirmed THEN [dm EXCEPT !.pc = "deleteDoc", !.deleting = documentId]
             ELSE dm
    /\ UNCHANGED <<db, user, loading, adminLocation, dash, um, cm, bulk, updatePromises, toast,
                   portalVars, download>>

\* deleteDoc resolved (deleting a document that is already gone succeeds).
DMDeleteOk ==
    /\ dm.pc = "deleteDoc"
    /\ db' = [db EXCEPT !.documents = DeleteDoc(@, dm.deleting)]
    /\ toast' = Toast("Success", "Document deleted successfully!", 0)
    /\ dm' = [dm EXCEPT !.fetchDocuments = "wait", !.pc = "refetchAfterDelete",
                 !.deleting = 0]
    /\ UNCHANGED <<user, loading, adminLocation, dash, um, cm, bulk, updatePromises, portalVars, download>>

\* deleteDoc rejected.
DMDeleteFail ==
    /\ dm.pc = "deleteDoc"
    /\ toast' = Toast("Error", "Failed to delete document.", 0)
    /\ dm' = [dm EXCEPT !.pc = "idle", !.deleting = 0]
    /\ UNCHANGED <<db, user, loading, adminLocation, dash, um, cm, bulk, updatePromises,
                   portalVars, download>>


\* -------------------------------------------------------- ClinicManagement
\* The clinic form has three required fields and six optional ones that
\* are carried the same way; the model keeps the required three.
ClinicForms(names) ==
    {[clinicName |-> n, doctorName |-> <<"D">>, clinicMail |-> <<"m">>] : n \in names}

\* A clinic record whose owner is not taken from the signed-in admin.
NewClinicUnknownOwner(id, formData, email) ==
    [id |-> id, clinicName |-> formData.clinicName, doctorName |-> formData.doctorName,
     clinicMail |-> formData.clinicMail, createdBy |-> "unknown",
     createdAt |-> ServerTimestamp, updatedAt |-> Undefined]

\* The record ClinicManagement.handleSubmit passes to addDoc.
NewClinic(id, formData, email) ==
    [id |-> id, clinicName |-> formData.clinicName, doctorName |-> formData.doctorName,
     clinicMail |-> formData.clinicMail, createdBy |-> email,
     createdAt |-> ServerTimestamp, updatedAt |-> Undefined]

\* The patch ClinicManagement.handleSubmit passes to updateDoc.
ClinicPatch(formData) ==
    [clinicName |-> formData.clinicName, doctorName |-> formData.doctorName,
     clinicMail |-> formData.clinicMail, updatedAt |-> ServerTimestamp]

\* The required-field check of ClinicManagement.handleSubmit.
ClinicFormValid(formData) ==
    /\ Trim(formData.clinicName) # <<>>
    /\ Trim(formData.doctorName) # <<>>
    /\ Trim(formData.clinicMail) # <<>>

CMUsable == adminLocation = "/clinic-management" /\ ~cm.loading

\* fetchClinics: what the handler that awaited it does when it returns
\* (handleSubmit's finally clears submitting; handleDelete just ends).
AfterFetchClinics(c) ==
    IF c.pc = "refetch" THEN [c EXCEPT !.pc = "idle", !.submitting = FALSE]
    ELSE IF c.pc = "refetchAfterDelete" THEN [c EXCEPT !.pc = "idle"]
    ELSE c

\* fetchClinics: getDocs resolved.
FetchClinicsOk ==
    /\ cm.fetchClinics = "wait"
    /\ cm' = AfterFetchClinics(
                 [cm EXCEPT !.fetchClinics = "idle", !.loading = FALSE,
                     !.clinics = GetDocs(db.clinics, ClinicsQuery(user))])
    /\ UNCHANGED <<db, user, loading, adminLocation, dash, um, dm, bulk, updatePromises, toast,
                   portalVars, download>>

\* fetchClinics: getDocs rejected with `code`, which the catch does not look
\* at; the list is left as it was.
FetchClinicsFail(code) ==
    /\ cm.fetchClinics = "wait"
    /\ cm' = AfterFetchClinics([cm EXCEPT !.fetchClinics = "idle", !.loading = FALSE])
    /\ toast' = Toast("Error", "Failed to load clinics.", 0)
    /\ UNCHANGED <<db, user, loading, adminLocation, dash, um, dm, bulk, updatePromises,
                   portalVars, download>>

\* The "Add Clinic" button: setIsModalOpen(true).
CMAddClinic ==
    /\ CMUsable /\ ~cm.isModalOpen
    /\ cm' = [cm EXCEPT !.isModalOpen = TRUE]
    /\ UNCHANGED <<db, user, loading, adminLocation, dash, um, dm, bulk, updatePromises, toast,
                   portalVars, download>>

\* The dialog is dismissed (close button, Escape, click outside):
\* onOpenChange = setIsModalOpen, called with false.
CMOnOpenChange ==
    /\ CMUsable /\ cm.isModalOpen
    /\ cm' = [cm EXCEPT !.isModalOpen = FALSE]
    /\ UNCHANGED <<db, user, loading, adminLocation, dash, um, dm, bulk, updatePromises, toast,
                   portalVars, download>>

\* handleInputChange on the fields of the open form (disabled while
\* submitting), taken together.
CMFillForm(formData) ==
    /\ CMUsable /\ cm.isModalOpen /\ ~cm.submitting
    /\ formData # cm.formData
    /\ cm' = [cm EXCEPT !.formData = formData]
    /\ UNCHANGED <<db, user, loading, adminLocation, dash, um, dm, bulk, updatePromises, toast,
                   portalVars, download>>

\* handleEdit(clinic) of a listed clinic.
CMHandleEdit(clinic) ==
    /\ CMUsable /\ ~cm.isModalOpen
    /\ clinic \in Range(cm.clinics)
    /\ cm' = [cm EXCEPT !.editingClinic = <<clinic>>,
                 !.formData = [clinicName |-> clinic.clinicName,
                               doctorName |-> clinic.doctorName,
                               clinicMail |-> clinic.clinicMail],
                 !.isModalOpen = TRUE]
    /\ UNCHANGED <<db, user, loading, adminLocation, dash, um, dm, bulk, updatePromises, toast,
                   portalVars, download>>

\* handleCancel (the Cancel button, disabled while submitting).
CMHandleCancel ==
    /\ CMUsable /\ cm.isModalOpen /\ ~cm.submitting
    /\ cm' = [cm EXCEPT !.formData = EmptyClinicForm, !.editingClinic = <<>>,
                 !.isModalOpen = FALSE]
    /\ UNCHANGED <<db, user, loading, adminLocation, dash, um, dm, bulk, updatePromises, toast,
                   portalVars, download>>

\* ClinicManagement.handleSubmit up to its await (updateDoc or addDoc).
CMHandleSubmit ==
    /\ CMUsable /\ cm.isModalOpen /\ ~cm.submitting /\ cm.pc = "idle"
    /\ IF ~ClinicFormValid(cm.formData)
       THEN /\ toast' = Toast("Warning", "Please fill in all required fields.", 0)
            /\ UNCHANGED cm
       ELSE /\ cm.editingClinic = <<>> => Cardinality(db.clinics) < MaxClinics
            /\ cm' = [cm EXCEPT !.submitting = TRUE,
                         !.pc = IF cm.editingClinic # <<>> THEN "updateDoc" ELSE "addDoc"]
            /\ UNCHANGED toast
    /\ UNCHANGED <<db, user, loading, adminLocation, dash, um, dm, bulk, updatePromises,
                   portalVars, download>>

\* What handleSubmit does once the write resolved: reset the form, close
\* the modal, clear editingClinic, then `await fetchClinics()`.
ClinicSaved(c) ==
    [c EXCEPT !.formData = EmptyClinicForm, !.isModalOpen = FALSE,
              !.editingClinic = <<>>, !.fetchClinics = "wait", !.pc = "refetch"]

\* updateDoc of the edited clinic resolved (it rejects if the clinic is gone).
CMUpdateOk ==
    /\ cm.pc = "updateDoc"
    /\ cm.editingClinic[1].id \in Ids(db.clinics)
    /\ db' = [db EXCEPT !.clinics =
                 UpdateDoc(@, cm.editingClinic[1].id, ClinicPatch(cm.formData))]
    /\ toast' = Toast("Success", "Clinic updated successfully!", 0)
    /\ cm' = ClinicSaved(cm)
    /\ UNCHANGED <<user, loading, adminLocation, dash, um, dm, bulk, updatePromises, portalVars, download>>

\* addDoc of a new clinic resolved.
CMAddOk ==
    /\ cm.pc = "addDoc"
    /\ db' = [db EXCEPT !.clinics =
                 @ \cup {NewClinic(Min(FreeIds(db.clinics, MaxClinics)), cm.formData,
                                   user)}]
    /\ toast' = Toast("Success", "Clinic added successfully!", 0)
    /\ cm' = ClinicSaved(cm)
    /\ UNCHANGED <<user, loading, adminLocation, dash, um, dm, bulk, updatePromises, portalVars, download>>

\* A handleSubmit whose catch is not followed by the finally that clears
\* submitting.
CMSubmitFailNoFinally ==
    /\ cm.pc \in {"updateDoc", "addDoc"}
    /\ toast' = Toast("Error", IF cm.editingClinic # <<>>
                               THEN "Failed to update clinic."
                               ELSE "Failed to add clinic.", 0)
    /\ cm' = [cm EXCEPT !.pc = "idle"]
    /\ UNCHANGED <<db, user, loading, adminLocation, dash, um, dm, bulk, updatePromises,
                   portalVars, download>>

\* The write rejected: the modal stays open with its values.
CMSubmitFail ==
    /\ cm.pc \in {"updateDoc", "addDoc"}
    /\ toast' = Toast("Error", IF cm.editingClinic # <<>>
                               THEN "Failed to update clinic."
                               ELSE "Failed to add clinic.", 0)
    /\ cm' = [cm EXCEPT !.submitting = FALSE, !.pc = "idle"]
    /\ UNCHANGED <<db, user, loading, adminLocation, dash, um, dm, bulk, updatePromises,
                   portalVars, download>>

\* ClinicManagement.handleDelete(clinicId) of a listed clinic.
CMHandleDelete(clinicId, confirmed) ==
    /\ CMUsable /\ ~cm.isModalOpen /\ cm.pc = "idle"
    /\ clinicId \in Range(RowIds(cm.clinics))
    /\ cm' = IF confirmed THEN [cm EXCEPT !.pc = "deleteDoc", !.deleting = clinicId]
             ELSE cm
    /\ UNCHANGED <<db, user, loading, adminLocation, dash, um, dm, bulk, updatePromises, toast,
                   portalVars, download>>

\* deleteDoc resolved.
CMDeleteOk ==
    /\ cm.pc = "deleteDoc"
    /\ db' = [db EXCEPT !.clinics = DeleteDoc(@, cm.deleting)]
    /\ toast' = Toast("Success", "Clinic deleted successfully!", 0)
    /\ cm' = [cm EXCEPT !.fetchClinics = "wait", !.pc = "refetchAfterDelete",
                 !.deleting = 0]
    /\ UNCHANGED <<user, loading, adminLocation, dash, um, dm, bulk, updatePromises, portalVars, download>>

\* deleteDoc rejected.
CMDeleteFail ==
    /\ cm.pc = "deleteDoc"
    /\ toast' = Toast("Error", "Failed to delete clinic.", 0)
    /\ cm' = [cm EXCEPT !.pc = "idle", !.deleting = 0]
    /\ UNCHANGED <<db, user, loading, adminLocation, dash, um, dm, bulk, updatePromises,
                   portalVars, download>>


\* --------------------------------------------------------- UserPortalLogin
LoginInputs ==
    {<<>>, <<" ">>, AmyMail, BobMail, <<" ">> \o AmyMail, <<"a", "@", "x">>}

\* emailRegex.test(s) for /^[^\s@]+@[^\s@]+\.[^\s@]+$/ : one "@" that is
\* not first, no whitespace, and a "." after the "@" with at least one
\* character on each side of it.
EmailRegexTest(s) ==
    \E i, j \in 1..Len(s) :
        /\ s[i] = "@" /\ s[j] = "."
        /\ 1 < i /\ i + 1 < j /\ j < Len(s)
        /\ \A k \in (1..Len(s)) \ {i} : s[k] \notin {" ", "@"}

\* The query of UserPortalLogin.handleSubmit and of fetchUserData.
PortalLoginQuery(email) == {<<"email", email>>}
PortalUserDataQuery(email) == {<<"email", email>>}
\* fetchUserDocuments reads the whole documents collection.
PortalDocumentsQuery == {}

\* A handleSubmit without the emailRegex test.
LoginInputErrorBlankOnly(email) ==
    IF Trim(email) = <<>> THEN <<"Please enter your email address">> ELSE <<>>

\* The validation messages of UserPortalLogin.handleSubmit, <<>> if the
\* input passes.
LoginInputError(email) ==
    IF Trim(email) = <<>> THEN <<"Please enter your email address">>
    ELSE IF ~EmailRegexTest(email) THEN <<"Please enter a valid email address">>
    ELSE <<>>

\* A handleSubmit that lets every looked-up account in.
LoginDenialNever(userData) == <<>>

\* The message handleSubmit shows for the looked-up account, <<>> if the
\* account may enter.
LoginDenial(userData) ==
    IF userData.status # "approved"
    THEN <<"Your account verification is ", userData.status,
           ". Please contact your administrator.">>
    ELSE <<>>

\* The address bar of the portal tab: a page load keeps sessionStorage and
\* nothing else.
PortalVisit(url) ==
    /\ url # portalLocation
    /\ upload.pc = "idle" /\ upload.del = "idle" /\ pl.pc = "idle"
    /\ portalLocation' = url
    /\ pl' = PLInit
    /\ pd' = PDInit
    /\ UNCHANGED <<db, adminVars, download, sessionStorage, upload, hosted, portalToast>>

\* The email input (disabled while loading): onChange = setEmail.
SetEmail(email) ==
    /\ portalLocation = "/user-portal-login" /\ ~pl.loading
    /\ email # pl.email
    /\ pl' = [pl EXCEPT !.email = email]
    /\ UNCHANGED <<db, adminVars, download, sessionStorage, portalLocation, pd, upload, hosted,
                   portalToast>>

\* UserPortalLogin.handleSubmit up to `await getDocs(q)`; the submit button
\* is disabled while loading.
PLHandleSubmit ==
    /\ portalLocation = "/user-portal-login" /\ ~pl.loading
    /\ LET error == LoginInputError(pl.email)
       IN  pl' = IF error # <<>>
                 THEN [pl EXCEPT !.error = error]
                 ELSE [pl EXCEPT !.error = <<>>, !.loading = TRUE, !.pc = "query"]
    /\ UNCHANGED <<db, adminVars, download, sessionStorage, portalLocation, pd, upload, hosted,
                   portalToast>>

\* getDocs resolved: not found, denied, or stored and navigated.  The
\* dashboard the tab navigates to is not mounted yet.
PLQueryOk ==
    /\ pl.pc = "query"
    /\ LET docs == GetDocs(db.users, PortalLoginQuery(Trim(pl.email)))
       IN  IF Len(docs) = 0
           THEN /\ pl' = [pl EXCEPT !.pc = "idle", !.loading = FALSE, !.error =
                             <<"Email not found. Please contact your administrator.">>]
                /\ UNCHANGED <<sessionStorage, portalLocation, pd>>
           ELSE IF LoginDenial(docs[1]) # <<>>
           THEN /\ pl' = [pl EXCEPT !.pc = "idle", !.loading = FALSE,
                             !.error = LoginDenial(docs[1])]
                /\ UNCHANGED <<sessionStorage, portalLocation, pd>>
           ELSE /\ sessionStorage' = <<Trim(pl.email)>>
                /\ portalLocation' = "/user-portal-dashboard"
                /\ pl' = PLInit
                /\ pd' = PDInit
    /\ UNCHANGED <<db, adminVars, download, upload, hosted, portalToast>>

\* getDocs rejected with `message`: err.message || 'Failed to access user portal'.
PLQueryFail(message) ==
    /\ pl.pc = "query"
    /\ pl' = [pl EXCEPT !.pc = "idle", !.loading = FALSE, !.error =
                 IF message # "" THEN <<message>>
                 ELSE <<"Failed to access user portal">>]
    /\ UNCHANGED <<db, adminVars, download, sessionStorage, portalLocation, pd, upload, hosted,
                   portalToast>>

\* ----------------------------------------------------- UserPortalDashboard
\* The mount effect: without a stored email it redirects to the login,
\* otherwise it starts fetchUserData and fetchUserDocuments.
PDMount ==
    /\ portalLocation = "/user-portal-dashboard" /\ ~pd.mounted
    /\ IF sessionStorage = <<>>
       THEN /\ portalLocation' = "/user-portal-login"
            /\ UNCHANGED pd
       ELSE /\ pd' = [pd EXCEPT !.mounted = TRUE, !.fetchUserData = "wait",
                         !.fetchUserDocuments = "wait"]
            /\ UNCHANGED portalLocation
    /\ UNCHANGED <<db, adminVars, download, sessionStorage, pl, upload, hosted, portalToast>>

\* A fetchUserData that takes the last record returned for the email.
UserDataFetchedLast(p, email) ==
    LET docs == GetDocs(db.users, PortalUserDataQuery(email))
    IN  IF Len(docs) # 0
        THEN [p EXCEPT !.userData = <<docs[Len(docs)]>>,
                       !.userImages = docs[Len(docs)].images, !.loading = FALSE]
        ELSE [p EXCEPT !.loading = FALSE]

\* fetchUserData(email) once its getDocs resolved: the first document of
\* the snapshot becomes userData; finally clears loading.
UserDataFetched(p, email) ==
    LET docs == GetDocs(db.users, PortalUserDataQuery(email))
    IN  IF Len(docs) # 0
        THEN [p EXCEPT !.userData = <<docs[1]>>, !.userImages = docs[1].images,
                       !.loading = FALSE]
        ELSE [p EXCEPT !.loading = FALSE]

\* The fetchUserData of the mount effect: getDocs resolved.
FetchUserDataOk ==
    /\ pd.fetchUserData = "wait"
    /\ pd' = [UserDataFetched(pd, sessionStorage[1]) EXCEPT !.fetchUserData = "idle"]
    /\ UNCHANGED <<db, adminVars, download, sessionStorage, portalLocation, pl, upload, hosted,
                   portalToast>>

\* The fetchUserData of the mount effect: getDocs rejected.
FetchUserDataFail ==
    /\ pd.fetchUserData = "wait"
    /\ pd' = [pd EXCEPT !.fetchUserData = "idle", !.loading = FALSE]
    /\ UNCHANGED <<db, adminVars, download, sessionStorage, portalLocation, pl, upload, hosted,
                   portalToast>>

\* doc.assignedUsers?.some(user => user.email === email)
AssignedTo(document, email) ==
    \E i \in 1..Len(document.assignedUsers) : document.assignedUsers[i].email = email

\* fetchUserDocuments: getDocs resolved; the documents are filtered on the
\* client.
FetchUserDocumentsOk ==
    /\ pd.fetchUserDocuments = "wait"
    /\ pd' = [pd EXCEPT !.fetchUserDocuments = "idle", !.documents =
                 SelectSeq(GetDocs(db.documents, PortalDocumentsQuery),
                           LAMBDA d : AssignedTo(d, sessionStorage[1]))]
    /\ UNCHANGED <<db, adminVars, download, sessionStorage, portalLocation, pl, upload, hosted,
                   portalToast>>

\* fetchUserDocuments: getDocs rejected; the catch only logs.
FetchUserDocumentsFail ==
    /\ pd.fetchUserDocuments = "wait"
    /\ pd' = [pd EXCEPT !.fetchUserDocuments = "idle"]
    /\ UNCHANGED <<db, adminVars, download, sessionStorage, portalLocation, pl, upload, hosted,
                   portalToast>>

\* The dashboard proper is rendered: loading is over and userData is set.
PDUsable ==
    /\ portalLocation = "/user-portal-dashboard" /\ pd.mounted
    /\ ~pd.loading /\ pd.userData # <<>>

\* UserPortalDashboard.handleDownload(doc) of a listed document.
PDHandleDownload(doc) ==
    /\ PDUsable
    /\ doc \in Range(pd.documents)
    /\ LET headers == <<HeaderUsername, HeaderEmail>>
           rows == [i \in 1..Len(doc.assignedUsers) |->
                       <<doc.assignedUsers[i].username, doc.assignedUsers[i].email>>]
           csvContent == Join(<<Join(headers, <<",">>)>> \o
                              [i \in 1..Len(rows) |-> Join(rows[i], <<",">>)], <<"\n">>)
       IN  download' = [download EXCEPT !.portal =
               <<[doc |-> doc.id, name |-> doc.documentName \o DotCsv,
                  text |-> csvContent]>>]
    /\ UNCHANGED <<db, adminVars, portalVars>>

\* A handleLogout that navigates but keeps the stored email.
HandleLogoutKeep ==
    /\ portalLocation = "/user-portal-dashboard" /\ pd.mounted
    /\ ~pd.loading /\ pd.userData # <<>>
    /\ upload.pc = "idle" /\ upload.del = "idle"
    /\ portalLocation' = "/user-portal-login"
    /\ pd' = PDInit
    /\ UNCHANGED <<db, adminVars, download, sessionStorage, pl, upload, hosted, portalToast>>

\* handleLogout.  (The model lets the user log out when no upload or
\* delete call is running.)
HandleLogout ==
    /\ PDUsable
    /\ upload.pc = "idle" /\ upload.del = "idle"
    /\ sessionStorage' = <<>>
    /\ portalLocation' = "/user-portal-login"
    /\ pd' = PDInit
    /\ UNCHANGED <<db, adminVars, download, pl, upload, hosted, portalToast>>

\* The "Back to Login" button of the page shown when userData is null.
PDBackToLogin ==
    /\ portalLocation = "/user-portal-dashboard" /\ pd.mounted
    /\ ~pd.loading /\ pd.userData = <<>>
    /\ portalLocation' = "/user-portal-login"
    /\ pd' = PDInit
    /\ UNCHANGED <<db, adminVars, download, sessionStorage, pl, upload, hosted, portalToast>>


\* ------------------------------------------------------------ image upload
MaxImages == 3
MaxImageBytes == 5 * 1024 * 1024
\* The image host accepts at most this many uploads in a run of the model.
MaxHosted == 4

ImageSlash == <<"i", "m", "a", "g", "e", "/">>
FileTypes == {ImageSlash \o <<"p">>, <<"t", "e", "x", "t", "/", "p">>,
              <<"i", "m", "a", "g", "e">>}
FileSizes == {MaxImageBytes, MaxImageBytes + 1}
Files == {[type |-> t, size |-> z, name |-> "pic"] : t \in FileTypes, z \in FileSizes}

\* The two checks of handleFileSelect: the notice it shows, "" if the file
\* is accepted.
FileSelectError(file) ==
    IF ~StartsWith(file.type, ImageSlash) THEN "Please select an image file."
    ELSE IF file.size > MaxImageBytes THEN "Image size should not exceed 5MB."
    ELSE ""

\* A cap check that lets a fourth image through.
UploadCapOffByOne(userImages, editingImage) ==
    Len(userImages) > MaxImages /\ editingImage = <<>>

\* The cap check of handleUploadImage.
UploadCapReached(userImages, editingImage) ==
    Len(userImages) >= MaxImages /\ editingImage = <<>>

\* imageData as handleUploadImage builds it from the host's answer; `url`
\* stands for the five URLs of the answer, which the host makes up together
\* with the id.
ImageData(hostId, file) ==
    [url |-> hostId, image_id |-> hostId, uploadedAt |-> "now", filename |-> file.name]

\* An arrayRemove that drops the first element whatever it is asked to remove.
ArrayRemoveFirst(array, x) == IF array = <<>> THEN array ELSE Tail(array)

\* Firestore arrayUnion / arrayRemove on an array field.
ArrayUnion(array, x) == IF x \in Range(array) THEN array ELSE Append(array, x)
ArrayRemove(array, x) == SelectSeq(array, LAMBDA y : y # x)

\* A write of the images that stores the account under no id at all.
SetImagesDropAccount(users, id, images) == {r \in users : r.id # id}

SetImages(users, id, images) == UpdateDoc(users, id, [images |-> images])
ImagesOf(users, id) == (CHOOSE r \in users : r.id = id).images

\* The button that opens the upload sidebar.
OpenSidebar ==
    /\ PDUsable /\ ~pd.sidebarOpen
    /\ pd' = [pd EXCEPT !.sidebarOpen = TRUE]
    /\ UNCHANGED <<db, adminVars, download, sessionStorage, portalLocation, pl, upload, hosted,
                   portalToast>>

\* handleCloseSidebar.
HandleCloseSidebar ==
    /\ PDUsable /\ pd.sidebarOpen
    /\ pd' = [pd EXCEPT !.sidebarOpen = FALSE, !.editingImage = <<>>,
                 !.selectedFile = <<>>]
    /\ UNCHANGED <<db, adminVars, download, sessionStorage, portalLocation, pl, upload, hosted,
                   portalToast>>

\* handleFileSelect for a chosen file (the input is disabled while uploading).
HandleFileSelect(file) ==
    /\ PDUsable /\ pd.sidebarOpen /\ ~pd.uploading
    /\ LET error == FileSelectError(file)
       IN  IF error # ""
           THEN /\ portalToast' = Toast("Error", error, 0)
                /\ UNCHANGED pd
           ELSE /\ pd' = [pd EXCEPT !.selectedFile = <<file>>]
                /\ UNCHANGED portalToast
    /\ UNCHANGED <<db, adminVars, download, sessionStorage, portalLocation, pl, upload, hosted>>

\* handleEditImage(image) of a shown image (disabled while uploading).
HandleEditImage(image) ==
    /\ PDUsable /\ pd.sidebarOpen /\ ~pd.uploading
    /\ image \in Range(pd.userImages)
    /\ pd' = [pd EXCEPT !.editingImage = <<image>>, !.sidebarOpen = TRUE]
    /\ portalToast' = Toast("Edit Mode", "Select a new image to replace the existing one.", 0)
    /\ UNCHANGED <<db, adminVars, download, sessionStorage, portalLocation, pl, upload, hosted>>

\* handleUploadImage up to `await uploadImageToImgBB(selectedFile)`; the
\* button is disabled while uploading or without a selected file.
HandleUploadImage ==
    /\ PDUsable /\ pd.sidebarOpen /\ ~pd.uploading /\ pd.selectedFile # <<>>
    /\ upload.pc = "idle"
    /\ IF UploadCapReached(pd.userImages, pd.editingImage)
       THEN /\ portalToast' = Toast("Warning",
                 "Maximum 3 images allowed. Please delete an existing image first.", 0)
            /\ UNCHANGED <<pd, upload>>
       ELSE /\ hosted < MaxHosted
            /\ pd' = [pd EXCEPT !.uploading = TRUE]
            /\ upload' = [upload EXCEPT !.pc = "host", !.file = pd.selectedFile,
                             !.editingImage = pd.editingImage]
            /\ UNCHANGED portalToast
    /\ UNCHANGED <<db, adminVars, download, sessionStorage, portalLocation, pl, hosted>>

\* uploadImageToImgBB returned: the host stored the image.
HostOk ==
    /\ upload.pc = "host"
    /\ hosted' = hosted + 1
    /\ upload' = [upload EXCEPT
           !.imageData = <<ImageData(hosted + 1, upload.file[1])>>,
           !.pc = IF upload.editingImage # <<>> THEN "arrayRemove" ELSE "arrayUnion"]
    /\ UNCHANGED <<db, adminVars, download, sessionStorage, portalLocation, pl, pd, portalToast>>

\* A catch that also gives up the selected file and the replace target.
UploadFailedReset(text) ==
    /\ portalToast' = Toast("Error", text, 0)
    /\ pd' = [pd EXCEPT !.uploading = FALSE, !.selectedFile = <<>>,
                 !.editingImage = <<>>]
    /\ upload' = [upload EXCEPT !.pc = "idle", !.file = <<>>, !.editingImage = <<>>,
                     !.imageData = <<>>]

\* The catch and finally of handleUploadImage.
UploadFailed(text) ==
    /\ portalToast' = Toast("Error", text, 0)
    /\ pd' = [pd EXCEPT !.uploading = FALSE]
    /\ upload' = [upload EXCEPT !.pc = "idle", !.file = <<>>, !.editingImage = <<>>,
                     !.imageData = <<>>]

\* uploadImageToImgBB threw: a request error carrying the host's message,
\* or an error without one (then the generic text is shown).
HostFail(message) ==
    /\ upload.pc = "host"
    /\ UploadFailed(IF message # "" THEN message ELSE "Failed to upload image.")
    /\ UNCHANGED <<db, adminVars, download, sessionStorage, portalLocation, pl, hosted>>

\* A replace that removes the old image and adds the new one in one write.
ArrayReplaceOk ==
    /\ upload.pc = "arrayRemove"
    /\ LET id == pd.userData[1].id
       IN  db' = [db EXCEPT !.users = SetImages(@, id,
                     ArrayUnion(ArrayRemove(ImagesOf(@, id), upload.editingImage[1]),
                                upload.imageData[1]))]
    /\ upload' = [upload EXCEPT !.pc = "arrayUnion"]
    /\ UNCHANGED <<adminVars, download, sessionStorage, portalLocation, pl, pd, hosted, portalToast>>

\* Replace mode, first write: updateDoc(images: arrayRemove(editingImage)).
ArrayRemoveOk ==
    /\ upload.pc = "arrayRemove"
    /\ LET id == pd.userData[1].id
       IN  db' = [db EXCEPT !.users = SetImages(@, id,
                     ArrayRemove(ImagesOf(@, id), upload.editingImage[1]))]
    /\ upload' = [upload EXCEPT !.pc = "arrayUnion"]
    /\ UNCHANGED <<adminVars, download, sessionStorage, portalLocation, pl, pd, hosted, portalToast>>

\* updateDoc(images: arrayUnion(imageData)) resolved: success notice, the
\* replace target is cleared, then `await fetchUserData(userEmail)`.
ArrayUnionOk ==
    /\ upload.pc = "arrayUnion"
    /\ LET id == pd.userData[1].id
       IN  db' = [db EXCEPT !.users = SetImages(@, id,
                     ArrayUnion(ImagesOf(@, id), upload.imageData[1]))]
    /\ portalToast' = Toast("Success", IF upload.editingImage # <<>>
                                       THEN "Image updated successfully!"
                                       ELSE "Image uploaded successfully!", 0)
    /\ pd' = IF upload.editingImage # <<>> THEN [pd EXCEPT !.editingImage = <<>>] ELSE pd
    /\ upload' = [upload EXCEPT !.pc = "refetch"]
    /\ UNCHANGED <<adminVars, download, sessionStorage, portalLocation, pl, hosted>>

\* One of the two updateDoc calls of handleUploadImage rejected.
UploadWriteFail ==
    /\ upload.pc \in {"arrayRemove", "arrayUnion"}
    /\ UploadFailed("Failed to upload image.")
    /\ UNCHANGED <<db, adminVars, download, sessionStorage, portalLocation, pl, hosted>>

\* The refresh at the end of handleUploadImage returned (fetchUserData
\* catches its own errors): the selected file is reset, finally clears
\* uploading.
UploadRefetched(ok) ==
    /\ upload.pc = "refetch"
    /\ pd' = [(IF ok THEN UserDataFetched(pd, sessionStorage[1])
                     ELSE [pd EXCEPT !.loading = FALSE])
                EXCEPT !.selectedFile = <<>>, !.uploading = FALSE]
    /\ upload' = [upload EXCEPT !.pc = "idle", !.file = <<>>, !.editingImage = <<>>,
                     !.imageData = <<>>]
    /\ UNCHANGED <<db, adminVars, download, sessionStorage, portalLocation, pl, hosted, portalToast>>

\* handleDeleteImage(image) of a shown image (disabled while uploading), up
\* to `await updateDoc`; declining the confirm dialog returns at once.
HandleDeleteImage(image, confirmed) ==
    /\ PDUsable /\ pd.sidebarOpen /\ ~pd.uploading
    /\ upload.del = "idle"
    /\ image \in Range(pd.userImages)
    /\ upload' = IF confirmed
                 THEN [upload EXCEPT !.del = "arrayRemove", !.delImage = <<image>>]
                 ELSE upload
    /\ UNCHANGED <<db, adminVars, download, sessionStorage, portalLocation, pl, pd, hosted,
                   portalToast>>

\* updateDoc(images: arrayRemove(image)) resolved: success notice, then the
\* refresh.  The image host is not called.
DeleteImageOk ==
    /\ upload.del = "arrayRemove"
    /\ LET id == pd.userData[1].id
       IN  db' = [db EXCEPT !.users = SetImages(@, id,
                     ArrayRemove(ImagesOf(@, id), upload.delImage[1]))]
    /\ portalToast' = Toast("Success", "Image removed successfully!", 0)
    /\ upload' = [upload EXCEPT !.del = "refetch"]
    /\ UNCHANGED <<adminVars, download, sessionStorage, portalLocation, pl, pd, hosted>>

\* updateDoc of handleDeleteImage rejected.
DeleteImageFail ==
    /\ upload.del = "arrayRemove"
    /\ portalToast' = Toast("Error", "Failed to delete image.", 0)
    /\ upload' = [upload EXCEPT !.del = "idle", !.delImage = <<>>]
    /\ UNCHANGED <<db, adminVars, download, sessionStorage, portalLocation, pl, pd, hosted>>

\* The refresh at the end of handleDeleteImage returned.
DeleteRefetched(ok) ==
    /\ upload.del = "refetch"
    /\ pd' = IF ok THEN UserDataFetched(pd, sessionStorage[1])
                   ELSE [pd EXCEPT !.loading = FALSE]
    /\ upload' = [upload EXCEPT !.del = "idle", !.delImage = <<>>]
    /\ UNCHANGED <<db, adminVars, download, sessionStorage, portalLocation, pl, hosted, portalToast>>


\* ---------------------------------------------------------- specifications
FormRoles == {"admin", "user", ""}
FormStatuses == {"pending", "approved", "rejected", ""}
UsernameOf(email) ==
    IF email = AmyMail THEN <<"A", "m", "y">> ELSE <<"B", "o", "b">>

\* What the admin can enter into the account form.
AccountForms(emails, roles, statuses) ==
    {[username |-> UsernameOf(e), email |-> e, role |-> r, status |-> st] :
        e \in emails, r \in roles, st \in statuses}

\* An admin signs in and creates accounts.
AccountNext(admins, forms) ==
    \/ AuthStateChanged(NoUser)
    \/ \E a \in admins : SignIn(a)
    \/ \E formData \in forms : DashFillForm(formData)
    \/ DashHandleSubmit
    \/ \E id \in 1..MaxUsers : DashSubmitOk(id)

AuthNext(pages) ==
    \/ HandleSignOut
    \/ \E url \in pages : HandleNavigation(url)

DashNext ==
    \/ DashSubmitFail
    \/ DashFetchStatsStep
    \/ DashFetchStatsFail

UMNext(actions, reasons) ==
    \/ FetchUsersOk
    \/ HandleSelectAll
    \/ \E userId \in 1..MaxUsers : HandleSelectUser(userId)
    \/ \E action \in actions : SetBulkAction(action)
    \/ \E reason \in reasons : SetRejectionReason(reason)
    \/ HandleBulkUpdate
    \/ \E p \in updatePromises : UpdateDocOk(p)

\* Store failures of the UserManagement page.
UMFailNext ==
    \/ \E code \in StoreErrors : FetchUsersFail(code)
    \/ \E p \in updatePromises : UpdateDocFail(p)

\* The DocumentManagement page as far as adding a document goes.
DMAddNext ==
    \/ FetchApprovedUsersOk
    \/ FetchDocumentsOk
    \/ \E name \in DocumentNames : SetDocumentName(name)
    \/ \E sel \in Selections(dm.approvedUsers) : SetSelectedUsers(sel)
    \/ DMHandleSubmit
    \/ \E id \in 1..MaxDocuments : DMSubmitOk(id)

DMNext ==
    \/ DMAddNext
    \/ FetchApprovedUsersFail
    \/ \E code \in StoreErrors : FetchDocumentsFail(code)
    \/ DMSubmitFail
    \/ \E id \in 1..MaxDocuments, confirmed \in BOOLEAN : DMHandleDelete(id, confirmed)
    \/ DMDeleteOk
    \/ DMDeleteFail

\* The ClinicManagement page as far as adding a clinic goes.
CMAddNext(forms) ==
    \/ FetchClinicsOk
    \/ CMAddClinic
    \/ \E formData \in forms : CMFillForm(formData)
    \/ CMHandleSubmit
    \/ CMAddOk

CMNext(forms) ==
    \/ CMAddNext(forms)
    \/ \E code \in StoreErrors : FetchClinicsFail(code)
    \/ CMOnOpenChange
    \/ \E clinic \in Range(cm.clinics) : CMHandleEdit(clinic)
    \/ CMHandleCancel
    \/ CMUpdateOk
    \/ CMSubmitFail
    \/ \E id \in 1..MaxClinics, confirmed \in BOOLEAN : CMHandleDelete(id, confirmed)
    \/ CMDeleteOk
    \/ CMDeleteFail

LoginNext(inputs) ==
    \/ \E url \in {"/user-portal-login", "/user-portal-dashboard"} : PortalVisit(url)
    \/ \E email \in inputs : SetEmail(email)
    \/ PLHandleSubmit
    \/ PLQueryOk

PortalNext ==
    \/ PDMount
    \/ FetchUserDataOk
    \/ FetchUserDocumentsOk
    \/ HandleLogout

\* Store failures of the portal, and the way out of the page they leave.
PortalFailNext ==
    \/ \E message \in {"", "unavailable"} : PLQueryFail(message)
    \/ FetchUserDataFail
    \/ FetchUserDocumentsFail
    \/ PDBackToLogin

UploadNext ==
    \/ OpenSidebar
    \/ HandleCloseSidebar
    \/ \E file \in Files : HandleFileSelect(file)
    \/ \E image \in Range(pd.userImages) : HandleEditImage(image)
    \/ HandleUploadImage
    \/ HostOk
    \/ \E message \in {"", "Invalid API v1 key."} : HostFail(message)
    \/ ArrayRemoveOk
    \/ ArrayUnionOk
    \/ UploadWriteFail
    \/ \E ok \in BOOLEAN : UploadRefetched(ok)

DeleteImageNext ==
    \/ \E image \in Range(pd.userImages), confirmed \in BOOLEAN :
           HandleDeleteImage(image, confirmed)
    \/ DeleteImageOk
    \/ DeleteImageFail
    \/ \E ok \in BOOLEAN : DeleteRefetched(ok)

\* Adding images with the store and the image host working.
UploadAddNext ==
    \/ OpenSidebar
    \/ \E file \in {f \in Files : FileSelectError(f) = ""} : HandleFileSelect(file)
    \/ HandleUploadImage
    \/ HostOk
    \/ ArrayUnionOk
    \/ UploadRefetched(TRUE)

\* The admin console alone: both admins and every page, without the store
\* failures of the UserManagement page.
NextAdmin ==
    \/ AccountNext(Admins, AccountForms({AmyMail}, {"user"}, {"approved"}))
    \/ AuthNext(AdminPages)
    \/ DashNext
    \/ UMNext({"rejected"}, {<<" ", "n">>})
    \/ DMNext
    \/ CMNext(ClinicForms({<<" ">>, <<"C">>}))
SpecAdmin == Init /\ [][NextAdmin]_vars

\* Bulk status transitions with every action and reason, the store working.
NextBulk ==
    \/ AccountNext({"ann@corp.io"}, AccountForms({AmyMail}, {"user"}, {"pending"}))
    \/ AuthNext({"/", "/user-management"})
    \/ UMNext(BulkActions, Reasons)
SpecBulk == Init /\ [][NextBulk]_vars

\* Bulk status transitions with store failures.
NextBulkFail ==
    \/ AccountNext({"ann@corp.io"}, AccountForms({AmyMail}, {"user"}, {"pending"}))
    \/ AuthNext({"/", "/user-management"})
    \/ UMNext({"approved", "rejected"}, {<<" ", "n">>})
    \/ UMFailNext
SpecBulkFail == Init /\ [][NextBulkFail]_vars

\* Portal login and logout against accounts of every status.
NextLogin ==
    \/ AccountNext({"ann@corp.io"}, AccountForms({AmyMail}, {"user"}, FormStatuses))
    \/ LoginNext(LoginInputs)
    \/ PortalNext
    \/ PortalFailNext
SpecLogin == Init /\ [][NextLogin]_vars

\* A portal session while the admin changes statuses in bulk.
NextSession ==
    \/ AccountNext({"ann@corp.io"},
                   AccountForms({AmyMail}, {"user"}, {"pending", "approved"}))
    \/ AuthNext({"/user-management"})
    \/ UMNext({"approved", "rejected"}, {<<" ", "n">>})
    \/ LoginNext({AmyMail})
    \/ PortalNext
SpecSession == Init /\ [][NextSession]_vars

\* Every read path: two admins who add accounts, documents and clinics and
\* open every page, and the portal.
NextReads ==
    \/ AccountNext(Admins, AccountForms({AmyMail}, {"user"}, {"approved"}))
    \/ AuthNext(AdminPages)
    \/ DashFetchStatsStep
    \/ FetchUsersOk
    \/ DMAddNext
    \/ CMAddNext(ClinicForms({<<"C">>}))
    \/ LoginNext({AmyMail})
    \/ PortalNext
SpecReads == Init /\ [][NextReads]_vars

\* Image upload: an approved account and the portal with the image sidebar.
NextUpload ==
    \/ AccountNext({"ann@corp.io"}, AccountForms({AmyMail}, {"user"}, {"approved"}))
    \/ LoginNext({AmyMail})
    \/ PortalNext
    \/ UploadNext
SpecUpload == Init /\ [][NextUpload]_vars

\* Image deletion: two approved accounts, one of them in the portal adding
\* and deleting images.
NextDelete ==
    \/ AccountNext({"ann@corp.io"},
                   AccountForms({AmyMail, BobMail}, {"user"}, {"approved"}))
    \/ LoginNext({AmyMail})
    \/ PortalNext
    \/ UploadAddNext
    \/ DeleteImageNext
SpecDelete == Init /\ [][NextDelete]_vars

\* Usernames with a comma and a quote in them.
CsvUsernames == {<<"B", "o", "b">>, <<"A", ",", "\"">>}
CsvForms ==
    {[username |-> u, email |-> e, role |-> "user", status |-> "approved"] :
        u \in CsvUsernames, e \in {AmyMail, BobMail}}

\* CSV export: accounts with such usernames are assigned to a document that
\* the admin and the portal user download.
NextCsv ==
    \/ AccountNext({"ann@corp.io"}, CsvForms)
    \/ AuthNext({"/document-management"})
    \/ DMAddNext
    \/ \E doc \in Range(dm.documents) : DMHandleDownload(doc)
    \/ LoginNext({AmyMail})
    \/ PortalNext
    \/ \E doc \in Range(pd.documents) : PDHandleDownload(doc)
SpecCsv == Init /\ [][NextCsv]_vars

\* Assignment while statuses change: the admin rejects accounts in bulk,
\* with store failures, and creates documents.
NextAssign ==
    \/ AccountNext(Admins, AccountForms({AmyMail}, {"user"}, {"approved"}))
    \/ AuthNext({"/user-management", "/document-management"})
    \/ UMNext({"rejected"}, {<<" ", "n">>})
    \/ UMFailNext
    \/ DMAddNext
SpecAssign == Init /\ [][NextAssign]_vars

\* Documents next to everything that writes accounts: document creation and
\* deletion, bulk status transitions, and image uploads from the portal.
NextSnapshot ==
    \/ AccountNext({"ann@corp.io"}, AccountForms({AmyMail}, {"user"}, {"approved"}))
    \/ \E url \in {"/user-management", "/document-management"} : HandleNavigation(url)
    \/ FetchUsersOk
    \/ HandleSelectAll
    \/ SetBulkAction("pending")
    \/ HandleBulkUpdate
    \/ \E p \in updatePromises : UpdateDocOk(p)
    \/ DMAddNext
    \/ \E id \in 1..MaxDocuments, confirmed \in BOOLEAN : DMHandleDelete(id, confirmed)
    \/ DMDeleteOk
    \/ SetEmail(AmyMail)
    \/ PLHandleSubmit
    \/ PLQueryOk
    \/ PDMount
    \/ FetchUserDataOk
    \/ UploadAddNext
SpecSnapshot == Init /\ [][NextSnapshot]_vars

\* An account of Ann's, as the account form stores it once approved.
AmyAccount ==
    NewAccount(1, [username |-> UsernameOf(AmyMail), email |-> AmyMail,
                   role |-> "user", status |-> "approved"], "ann@corp.io")

\* The state in which Ann has created that account and a document assigned
\* to it and has signed out; both browser tabs are fresh.
InitAssigned ==
    /\ db = [users |-> {AmyAccount},
             documents |-> {NewDocument(1, <<"D">>, <<Option(AmyAccount)>>,
                                        "ann@corp.io")},
             clinics |-> {}]
    /\ user = NoUser
    /\ loading = FALSE
    /\ adminLocation = "/login"
    /\ dash = DashInit
    /\ um = UMInit
    /\ dm = DMInit
    /\ cm = CMInit
    /\ bulk = BulkIdle
    /\ updatePromises = {}
    /\ toast = NoToast
    /\ sessionStorage = <<>>
    /\ portalLocation = "/user-portal-login"
    /\ pl = PLInit
    /\ pd = PDInit
    /\ upload = UploadIdle
    /\ hosted = 0
    /\ portalToast = NoToast
    /\ download = NoDownload

\* Every portal operation on that account, next to the admin who signs in
\* again and deletes the document.
NextPortalOps ==
    \/ SignIn("ann@corp.io")
    \/ HandleNavigation("/document-management")
    \/ FetchApprovedUsersOk
    \/ FetchDocumentsOk
    \/ \E id \in 1..MaxDocuments, confirmed \in BOOLEAN : DMHandleDelete(id, confirmed)
    \/ DMDeleteOk
    \/ LoginNext({AmyMail})
    \/ PortalNext
    \/ \E doc \in Range(pd.documents) : PDHandleDownload(doc)
    \/ UploadAddNext
    \/ \E image \in Range(pd.userImages) : HandleEditImage(image)
    \/ ArrayRemoveOk
    \/ DeleteImageNext
SpecPortalOps == InitAssigned /\ [][NextPortalOps]_vars


\* The account form with its selects chosen or left empty, followed by bulk
\* status transitions of every kind.
NextAccounts ==
    \/ AccountNext({"ann@corp.io"}, AccountForms({AmyMail}, {"user", ""}, FormStatuses))
    \/ \E url \in {"/", "/user-management"} : HandleNavigation(url)
    \/ UMNext(BulkActions, {<<" ", "n">>})
SpecAccounts == Init /\ [][NextAccounts]_vars


\* The admin tab opened at any of its URLs, with or without a persisted
\* identity, next to sign-in, navigation, sign-out, account creation and
\* the fetches of the four pages.
NextGate ==
    \/ \E url \in AdminUrls : AppMount(url)
    \/ \E a \in {NoUser, "ann@corp.io"} : AuthStateChanged(a)
    \/ SignIn("ann@corp.io")
    \/ AuthNext(AdminPages)
    \/ \E formData \in AccountForms({AmyMail}, {"user"}, {"approved"}) :
           DashFillForm(formData)
    \/ DashHandleSubmit
    \/ \E id \in 1..MaxUsers : DashSubmitOk(id)
    \/ DashFetchStatsStep
    \/ FetchUsersOk
    \/ FetchApprovedUsersOk
    \/ FetchDocumentsOk
    \/ FetchClinicsOk
SpecGate == Init /\ [][NextGate]_vars


\* The dashboard statistics next to the writes that can fall between their
\* queries: the account form of the same page, and updateDoc calls of a
\* failed bulk transition that are still in flight when the admin returns
\* to the dashboard.
NextStats ==
    \/ AccountNext({"ann@corp.io"},
                   AccountForms({AmyMail}, {"user"}, {"pending", "approved"}))
    \/ \E url \in {"/", "/user-management", "/document-management"} :
           HandleNavigation(url)
    \/ DashFetchStatsStep
    \/ UMNext({"rejected"}, {<<" ", "n">>})
    \/ \E p \in updatePromises : UpdateDocFail(p)
    \/ DMAddNext
SpecStats == Init /\ [][NextStats]_vars


\* Every form with a submitting flag, each with one input, and each store
\* or image-host call settling either way.  The admin creates one account
\* and the portal user sends one image to the host.
NextForms ==
    \/ AuthStateChanged(NoUser)
    \/ SignIn("ann@corp.io")
    \/ \E url \in AdminPages : HandleNavigation(url)
    \/ \E formData \in AccountForms({AmyMail}, {"user"}, {"approved"}) :
           DashFillForm(formData)
    \/ db.users = {} /\ DashHandleSubmit
    \/ \E id \in 1..MaxUsers : DashSubmitOk(id)
    \/ DashSubmitFail
    \/ FetchUsersOk
    \/ HandleSelectAll
    \/ SetBulkAction("approved")
    \/ HandleBulkUpdate
    \/ \E p \in updatePromises : UpdateDocOk(p)
    \/ \E p \in updatePromises : UpdateDocFail(p)
    \/ FetchApprovedUsersOk
    \/ FetchDocumentsOk
    \/ SetDocumentName(<<"D">>)
    \/ \E sel \in Selections(dm.approvedUsers) : SetSelectedUsers(sel)
    \/ DMHandleSubmit
    \/ \E id \in 1..MaxDocuments : DMSubmitOk(id)
    \/ DMSubmitFail
    \/ FetchClinicsOk
    \/ CMAddClinic
    \/ \E formData \in ClinicForms({<<"C">>}) : CMFillForm(formData)
    \/ CMHandleSubmit
    \/ CMAddOk
    \/ CMSubmitFail
    \/ SetEmail(AmyMail)
    \/ PLHandleSubmit
    \/ PLQueryOk
    \/ PLQueryFail("unavailable")
    \/ PDMount
    \/ FetchUserDataOk
    \/ FetchUserDocumentsOk
    \/ OpenSidebar
    \/ \E file \in {f \in Files : FileSelectError(f) = ""} : HandleFileSelect(file)
    \/ hosted = 0 /\ HandleUploadImage
    \/ HostOk
    \/ HostFail("")
    \/ ArrayUnionOk
    \/ UploadWriteFail
    \/ UploadRefetched(TRUE)
SpecForms == Init /\ [][NextForms]_vars


\* Every store call and every call to the image host settles: its promise
\* is fulfilled or rejected.
CallsSettle ==
    /\ WF_vars((\E id \in 1..MaxUsers : DashSubmitOk(id)) \/ DashSubmitFail)
    /\ WF_vars(\E p \in updatePromises : UpdateDocOk(p) \/ UpdateDocFail(p))
    /\ WF_vars(FetchUsersOk)
    /\ WF_vars((\E id \in 1..MaxDocuments : DMSubmitOk(id)) \/ DMSubmitFail)
    /\ WF_vars(FetchDocumentsOk)
    /\ WF_vars(CMAddOk \/ CMSubmitFail)
    /\ WF_vars(FetchClinicsOk)
    /\ WF_vars(PLQueryOk \/ PLQueryFail("unavailable"))
    /\ WF_vars(HostOk \/ HostFail(""))
    /\ WF_vars(ArrayUnionOk \/ UploadWriteFail)
    /\ WF_vars(UploadRefetched(TRUE))
SpecFormsLive == SpecForms /\ CallsSettle


\* Accounts that share one email with different statuses, created under
\* ids in either order, and the portal with login and image upload.
NextShared ==
    \/ AccountNext({"ann@corp.io"},
                   AccountForms({AmyMail}, {"user"}, {"approved", "pending"}))
    \/ LoginNext({AmyMail})
    \/ PortalNext
    \/ UploadAddNext
SpecShared == Init /\ [][NextShared]_vars

\* ------------------------------------------------------------------ claims
\* The records the admin pages hold from their fetches.
LoadedRecords ==
    Range(um.users) \cup Range(dm.documents) \cup Range(cm.clinics)
    \cup Range(dash.usersSnapshot) \cup Range(dash.pendingSnapshot)
    \cup Range(dash.rejectedSnapshot) \cup Range(dash.documentsSnapshot)

\* The createdBy of the account a multi-select option of DocumentManagement
\* stands for.
OwnerOf(option) == (CHOOSE r \in db.users : r.id = option.value).createdBy

\* C1: for any two distinct admins A and B, while B is the current admin no
\* result of fetchUsers, fetchApprovedUsers, fetchDocuments, fetchClinics
\* or fetchStats holds a record whose createdBy is A.
C1_TenantIsolation ==
    \A A, B \in Admins :
        (A # B /\ user = B) =>
            /\ \A r \in LoadedRecords : r.createdBy # A
            /\ \A o \in Range(dm.approvedUsers) : OwnerOf(o) # A

\* Bob's UserManagement list is loaded and not empty while the store holds
\* an account created by Ann.
C1_Witness ==
    /\ user = "bob@corp.io" /\ ~um.loading /\ Len(um.users) > 0
    /\ \E r \in db.users : r.createdBy = "ann@corp.io"

\* All records of a snapshot have one owner.
SingleOwner(docs) == \A r, q \in Range(docs) : r.createdBy = q.createdBy

\* C2 (as stated): every read of users, documents or clinics, on the admin
\* pages, in the portal login and in the portal dashboard, returns records
\* of one owner only, the current admin.
C2_EveryReadOwnerScoped ==
    [][ /\ \A r \in LoadedRecords' : r.createdBy = user'
        /\ PLQueryOk =>
               SingleOwner(GetDocs(db.users, PortalLoginQuery(Trim(pl.email))))
        /\ FetchUserDataOk =>
               SingleOwner(GetDocs(db.users, PortalUserDataQuery(sessionStorage[1])))
        /\ FetchUserDocumentsOk =>
               SingleOwner(GetDocs(db.documents, PortalDocumentsQuery)) ]_vars

\* The snapshot handleSubmit of the portal login gets for the typed email.
LookedUp == GetDocs(db.users, PortalLoginQuery(Trim(pl.email)))

\* C3: the portal login stores the email and navigates to the dashboard
\* only if the account it looked up has status 'approved'; for any other
\* status nothing is stored, the page stays, and the message shown contains
\* that status.
C3_OnlyApprovedEnters ==
    [][ pl.pc = "query" =>
          /\ (sessionStorage' # sessionStorage \/ portalLocation' # portalLocation) =>
                 /\ Len(LookedUp) > 0 /\ LookedUp[1].status = "approved"
                 /\ sessionStorage' = <<Trim(pl.email)>>
                 /\ portalLocation' = "/user-portal-dashboard"
          /\ (PLQueryOk /\ Len(LookedUp) > 0 /\ LookedUp[1].status # "approved") =>
                 /\ sessionStorage' = sessionStorage
                 /\ portalLocation' = portalLocation
                 /\ LookedUp[1].status \in Range(pl'.error) ]_vars

\* The login page shows the denial for a rejected account, nothing stored.
C3_Witness ==
    /\ pl.error = <<"Your account verification is ", "rejected",
                    ". Please contact your administrator.">>
    /\ sessionStorage = <<>> /\ portalLocation = "/user-portal-login"

\* The portal session is Authenticated.
Authenticated == sessionStorage # <<>> /\ PDUsable

\* C4 (as stated): whenever the portal session is Authenticated, an account
\* with the stored email and status 'approved' exists, also after a bulk
\* status transition of the admin.
C4_SessionApproved ==
    Authenticated =>
        \E r \in db.users : r.email = sessionStorage[1] /\ r.status = "approved"

\* (a) of the login transition: a non-blank email of the form
\* local@domain.tld without whitespace.
ValidEmail(email) ==
    /\ Trim(email) # <<>>
    /\ \A i \in 1..Len(email) : email[i] # " "
    /\ EmailRegexTest(email)

\* C5: the session becomes Authenticated only from a valid email for which
\* an approved account exists; with an invalid email handleSubmit issues no
\* query; when the email is invalid, no account has it or the query fails,
\* the page stays, session storage is unchanged, an error is set and loading
\* is false.
C5_LoginTransition ==
    [][ /\ (sessionStorage' # sessionStorage /\ sessionStorage' # <<>>) =>
               /\ pl.pc = "query" /\ ValidEmail(pl.email)
               /\ \E r \in db.users : r.email = Trim(pl.email) /\ r.status = "approved"
        /\ (PLHandleSubmit /\ ~ValidEmail(pl.email)) =>
               /\ pl'.pc = "idle" /\ sessionStorage' = sessionStorage
               /\ pl'.error # <<>> /\ ~pl'.loading
        /\ (pl.pc = "query" /\ pl'.pc # "query" /\ portalLocation' = portalLocation) =>
               sessionStorage' = sessionStorage /\ pl'.error # <<>> /\ ~pl'.loading
        /\ (pl.pc = "query" /\ pl'.pc # "query" /\ Len(LookedUp) = 0) =>
               portalLocation' = portalLocation
        /\ (\E message \in {"", "unavailable"} : PLQueryFail(message)) =>
               portalLocation' = portalLocation ]_vars

\* The login page shows "Email not found" although accounts exist, nothing
\* stored and loading over.
C5_Witness ==
    /\ pl.error = <<"Email not found. Please contact your administrator.">>
    /\ ~pl.loading /\ sessionStorage = <<>> /\ db.users # {}

\* C6: handleLogout removes the stored email and navigates to the portal
\* login; mounting the dashboard without a stored email redirects to the
\* login; while no email is stored no users or documents query of the
\* dashboard is in flight; and an email gets stored only by a portal login
\* that found an approved account.
C6_Logout ==
    [][ /\ HandleLogout =>
               sessionStorage' = <<>> /\ portalLocation' = "/user-portal-login"
        /\ (PDMount /\ sessionStorage = <<>>) =>
               portalLocation' = "/user-portal-login" /\ sessionStorage' = <<>>
        /\ sessionStorage' = <<>> =>
               pd'.fetchUserData = "idle" /\ pd'.fetchUserDocuments = "idle"
        /\ (sessionStorage = <<>> /\ sessionStorage' # <<>>) =>
               /\ PLQueryOk
               /\ Len(LookedUp) > 0 /\ LookedUp[1].status = "approved" ]_vars

\* The dashboard URL is open without a stored email although an approved
\* account exists: the mount effect is about to redirect.
C6_Witness ==
    /\ portalLocation = "/user-portal-dashboard" /\ sessionStorage = <<>>
    /\ ~pd.mounted
    /\ \E r \in db.users : r.status = "approved"

\* C7: every patch of a bulk transition to 'rejected' carries status
\* 'rejected', a reason that is not blank and the rejectedAt timestamp;
\* every patch to 'approved' or 'pending' sets rejectionReason and
\* rejectedAt to null; and so does every account a patch was written to.
C7_BulkPatch ==
    /\ \A p \in updatePromises :
           /\ p.updateData.status \in BulkActions
           /\ p.updateData.status = "rejected" =>
                  /\ Trim(p.updateData.rejectionReason) # <<>>
                  /\ p.updateData.rejectedAt = ServerTimestamp
           /\ p.updateData.status # "rejected" =>
                  /\ p.updateData.rejectionReason = Null
                  /\ p.updateData.rejectedAt = Null
    /\ \A r \in db.users :
           /\ r.status = "rejected" =>
                  /\ r.rejectionReason \notin {Undefined, Null}
                  /\ Trim(r.rejectionReason) # <<>>
                  /\ r.rejectedAt = ServerTimestamp
           /\ r.status # "rejected" =>
                  /\ r.rejectionReason \in {Undefined, Null}
                  /\ r.rejectedAt \in {Undefined, Null}

\* One account was rejected with a reason, and one that had been rejected
\* was approved again, which cleared its reason and timestamp.
C7_Witness ==
    \E r, q \in db.users :
        /\ r.status = "rejected" /\ r.rejectionReason = <<" ", "n">>
        /\ q.status = "approved" /\ q.rejectionReason = Null /\ q.rejectedAt = Null

\* C8 (as stated): when handleBulkUpdate leaves its `await Promise.all`, to
\* show the success or the failure notice, no updateDoc of its batch is
\* still in flight.
C8_NoticeAfterAllSettled ==
    [][ (bulk.pc = "awaitAll" /\ bulk'.pc # "awaitAll") =>
            \A p \in updatePromises' : p.batch # "current" ]_vars

\* C9: a failing updateDoc writes nothing and starts no other write, the
\* failure of the running batch shows the one notice "Failed to update
\* users.", updateDoc calls settling outside a running batch show nothing,
\* and the accounts change only by an account being created or by one
\* dispatched patch being committed, in whatever order.
C9_NoCompensation ==
    [][ /\ \A p \in updatePromises :
               /\ UpdateDocFail(p) =>
                      /\ db' = db /\ updatePromises' = updatePromises \ {p}
                      /\ (bulk.pc = "awaitAll" /\ p.batch = "current") =>
                             toast' = Toast("Error", "Failed to update users.", 0)
               /\ ((UpdateDocFail(p) \/ UpdateDocOk(p))
                   /\ ~(bulk.pc = "awaitAll" /\ p.batch = "current")) =>
                      toast' = toast
        /\ db'.users # db.users =>
               \/ \E r \in db'.users :
                      r.id \notin Ids(db.users) /\ db'.users = db.users \cup {r}
               \/ \E p \in updatePromises :
                      /\ db'.users = UpdateDoc(db.users, p.userId, p.updateData)
                      /\ updatePromises' = updatePromises \ {p} ]_vars

\* After a batch over both accounts failed, everything has settled: the
\* second account is approved, the first is still pending, and the failure
\* notice is shown.
C9_Witness ==
    /\ toast = Toast("Error", "Failed to update users.", 0)
    /\ bulk.pc = "idle" /\ updatePromises = {}
    /\ Len(um.selectedUsers) = 2 /\ um.bulkAction = "approved"
    /\ \E r, q \in db.users :
           /\ r.id = 1 /\ r.status = "pending"
           /\ q.id = 2 /\ q.status = "approved"

\* The checks of handleFileSelect hold for a file.
Acceptable(file) == StartsWith(file.type, ImageSlash) /\ file.size <= 5 * 1024 * 1024

\* C10: the selected file and the file sent to the image host always have
\* a type starting with 'image/' and at most 5*1024*1024 bytes; and when
\* handleUploadImage sees 3 images and no replace in progress, it calls
\* neither the image host nor the store.
C10_UploadPreconditions ==
    [][ /\ pd'.selectedFile # <<>> => Acceptable(pd'.selectedFile[1])
        /\ upload'.file # <<>> => Acceptable(upload'.file[1])
        /\ (HandleUploadImage /\ Len(pd.userImages) >= 3 /\ pd.editingImage = <<>>) =>
               /\ upload' = upload /\ hosted' = hosted /\ db' = db
               /\ ~pd'.uploading ]_vars

\* With 3 images and a file selected, handleUploadImage has shown the cap
\* notice and started nothing.
C10_Witness ==
    /\ portalToast = Toast("Warning",
           "Maximum 3 images allowed. Please delete an existing image first.", 0)
    /\ Len(pd.userImages) = 3 /\ pd.selectedFile # <<>> /\ pd.editingImage = <<>>
    /\ upload.pc = "idle" /\ ~pd.uploading /\ hosted = 3

\* C11 (as stated): whatever uploads, replacements and deletions have run,
\* every account's images array holds at most 3 entries.
C11_ImageCap == \A r \in db.users : Len(r.images) <= MaxImages

\* C12: a confirmed deletion leaves in the account's images array exactly
\* the entries that differ from the given image, in their order, changes
\* no other account and nothing else in the store, and calls the image
\* host neither then nor when the deletion starts; a declined confirmation
\* changes nothing.
C12_DeleteImage ==
    [][ /\ DeleteImageOk =>
               LET id == pd.userData[1].id
                   image == upload.delImage[1]
               IN  /\ ImagesOf(db'.users, id) =
                          SelectSeq(ImagesOf(db.users, id), LAMBDA y : y # image)
                   /\ \A r \in db.users : r.id # id => r \in db'.users
                   /\ Ids(db'.users) = Ids(db.users)
                   /\ db'.documents = db.documents /\ db'.clinics = db.clinics
                   /\ hosted' = hosted /\ upload'.pc = upload.pc
        /\ \A image \in Range(pd.userImages) :
               /\ HandleDeleteImage(image, TRUE) =>
                      db' = db /\ hosted' = hosted /\ upload'.pc = upload.pc
               /\ HandleDeleteImage(image, FALSE) => vars' = vars ]_vars

\* Of two uploaded images the second was deleted and the first is left,
\* while the store holds a second account.
C12_Witness ==
    /\ upload.del = "refetch" /\ hosted = 2
    /\ upload.delImage = <<ImageData(2, [name |-> "pic"])>>
    /\ \E r, q \in db.users :
           /\ r.id # q.id
           /\ r.email = AmyMail /\ r.images = <<ImageData(1, [name |-> "pic"])>>

\* C13: a replace writes twice.  The first write removes the old image and
\* does not add the new one, so that the account holds one image fewer if
\* the old one was there; until the second write nothing else changes the
\* array; the second write adds the new image, one entry more, the old one
\* still absent; and when the second write fails the handler stops with
\* the store as the first write left it.
C13_ReplaceTwoWrites ==
    [][ (upload.editingImage # <<>> /\ upload.pc \in {"arrayRemove", "arrayUnion"}) =>
            LET id == pd.userData[1].id
                old == upload.editingImage[1]
                new == upload.imageData[1]
                before == ImagesOf(db.users, id)
                after == ImagesOf(db'.users, id)
            IN  /\ ArrayRemoveOk =>
                       /\ old \notin Range(after) /\ new \notin Range(after)
                       /\ old \in Range(before) => Len(after) = Len(before) - 1
                       /\ upload'.pc = "arrayUnion"
                /\ upload.pc = "arrayUnion" =>
                       /\ old \notin Range(before) /\ new \notin Range(before)
                       /\ ~ArrayUnionOk => after = before
                /\ ArrayUnionOk =>
                       /\ old \notin Range(after) /\ new \in Range(after)
                       /\ Len(after) = Len(before) + 1
                /\ UploadWriteFail => db' = db /\ upload'.pc = "idle" ]_vars

\* The replace of the first of two images stopped after its first write:
\* the account is left with the second image only, the new image is hosted
\* but not in the array, and the page still names the replaced image.
C13_Witness ==
    /\ upload.pc = "idle" /\ hosted = 3
    /\ portalToast = Toast("Error", "Failed to upload image.", 0)
    /\ pd.editingImage = <<ImageData(1, [name |-> "pic"])>>
    /\ \E r \in db.users : r.images = <<ImageData(2, [name |-> "pic"])>>

\* The lines after the header: for each assigned user in stored order a
\* newline, the username as stored, a comma and the email as stored.
RECURSIVE CsvLines(_)
CsvLines(users) ==
    IF users = <<>> THEN <<>>
    ELSE <<"\n">> \o users[1].username \o <<",">> \o users[1].email
         \o CsvLines(Tail(users))

\* C14: a CSV export, from the admin page or from the portal, offers a file
\* named '<documentName>.csv' whose text is the line 'Username,Email'
\* followed by one line 'username,email' per assigned user in stored order,
\* single newlines between the lines, none at the end, nothing escaped; so
\* the two exports of one Document have the same text.
C14_CsvExport ==
    [][ /\ \A doc \in Range(dm.documents) :
               DMHandleDownload(doc) =>
                   /\ download'.admin[1].name = doc.documentName \o <<".", "c", "s", "v">>
                   /\ download'.admin[1].text =
                          <<"U", "s", "e", "r", "n", "a", "m", "e", ",",
                            "E", "m", "a", "i", "l">> \o CsvLines(doc.assignedUsers)
        /\ \A doc \in Range(pd.documents) :
               PDHandleDownload(doc) =>
                   /\ download'.portal[1].name = doc.documentName \o <<".", "c", "s", "v">>
                   /\ download'.portal[1].text =
                          <<"U", "s", "e", "r", "n", "a", "m", "e", ",",
                            "E", "m", "a", "i", "l">> \o CsvLines(doc.assignedUsers)
        /\ (/\ download'.admin # <<>> /\ download'.portal # <<>>
            /\ download'.admin[1].doc = download'.portal[1].doc) =>
               download'.admin[1].text = download'.portal[1].text ]_vars

\* Both tabs exported the document 'D' assigned to Bob (b@x.y) and to an
\* account whose username is A," (a@x.y): the text is
\* Username,Email / Bob,b@x.y / A,",a@x.y with the comma and the quote as
\* they are.
C14_Witness ==
    /\ download.admin # <<>> /\ download.portal # <<>>
    /\ download.portal[1].name = <<"D", ".", "c", "s", "v">>
    /\ download.admin[1].text =
           <<"U", "s", "e", "r", "n", "a", "m", "e", ",", "E", "m", "a", "i", "l", "\n",
             "B", "o", "b", ",", "b", "@", "x", ".", "y", "\n",
             "A", ",", "\"", ",", "a", "@", "x", ".", "y">>
    /\ download.portal[1].text = download.admin[1].text

\* C15: a handleSubmit of the document form whose name is blank after
\* trimming or whose selection is empty shows a warning and stops, leaving
\* the store alone and starting no write; every addDoc in flight comes
\* from a form with a name and a selection; and every document in the
\* store has a non-empty, trimmed documentName and a non-empty
\* assignedUsers list.
C15_DocumentValidated ==
    [][ /\ (DMHandleSubmit /\ (Trim(dm.documentName) = <<>> \/ Len(dm.selectedUsers) = 0)) =>
               /\ db' = db /\ dm' = dm
               /\ toast'.title = "Warning"
        /\ dm'.pc = "addDoc" =>
               Trim(dm'.documentName) # <<>> /\ Len(dm'.selectedUsers) > 0
        /\ \A d \in db'.documents :
               /\ d.documentName # <<>> /\ d.documentName = Trim(d.documentName)
               /\ Len(d.assignedUsers) > 0 ]_vars

\* With approved accounts on offer and a name typed, a submit without a
\* selection was refused: the warning is shown, nothing stored or started.
C15_Witness ==
    /\ toast = Toast("Warning", "Please select at least one approved user.", 0)
    /\ dm.documentName = <<"D">> /\ Len(dm.approvedUsers) > 0
    /\ dm.pc = "idle" /\ ~dm.submitting /\ db.documents = {}

\* The documents a step adds to the store.
Created == db'.documents \ db.documents

\* C16 (as stated): every user copied into a new Document's assignedUsers
\* is an account owned by the creating admin that has status 'approved' at
\* the moment the Document is created.
C16_ApprovedAtCreation ==
    [][ \A d \in Created : \A u \in Range(d.assignedUsers) :
            \E r \in db.users :
                /\ r.id = u.id /\ r.createdBy = d.createdBy /\ d.createdBy = user
                /\ r.status = "approved" ]_vars

\* C16 (amended): fetchApprovedUsers offers exactly accounts that are owned
\* by the current admin and 'approved' when it reads them, and every user
\* copied into a new Document's assignedUsers is such an offered option of
\* an account owned by the creating admin.
C16_ApprovedWhenFetched ==
    [][ /\ FetchApprovedUsersOk =>
               \A o \in Range(dm'.approvedUsers) :
                   \E r \in db.users :
                       /\ r.id = o.value /\ r.email = o.email /\ r.username = o.username
                       /\ r.createdBy = user /\ r.status = "approved"
        /\ \A d \in Created : \A u \in Range(d.assignedUsers) :
               /\ \E o \in Range(dm.approvedUsers) :
                      o.value = u.id /\ o.email = u.email /\ o.username = u.username
               /\ \E r \in db.users :
                      r.id = u.id /\ r.createdBy = d.createdBy /\ d.createdBy = user ]_vars

\* A document was just created whose assigned account is rejected by now,
\* while the page still offers that account.
C16_Witness ==
    /\ toast = Toast("Success", "Document created successfully!", 0)
    /\ \E d \in db.documents : \E u \in Range(d.assignedUsers) :
           /\ \E r \in db.users : r.id = u.id /\ r.status = "rejected"
           /\ \E o \in Range(dm.approvedUsers) : o.value = u.id

\* C17: no step changes the assignedUsers list of a document that stays in
\* the store, whatever the step does to the accounts the list names, and a
\* document leaves the store only by the admin's deleteDoc.
C17_AssignmentSnapshot ==
    [][ \A d \in db.documents :
            /\ \A e \in db'.documents :
                   e.id = d.id => e.assignedUsers = d.assignedUsers
            /\ d.id \notin Ids(db'.documents) => DMDeleteOk ]_vars

\* A document names an account that has since been set back to 'pending'
\* and has uploaded an image: the list still has the account's entry.
C17_Witness ==
    \E d \in db.documents : \E r \in db.users :
        /\ r.status = "pending" /\ Len(r.images) > 0
        /\ d.assignedUsers = <<[id |-> r.id, username |-> r.username, email |-> r.email]>>

\* C18 (as stated): when the getDocs of fetchUsers, fetchDocuments or
\* fetchClinics fails with permission-denied, the page shows an empty list
\* and no new notice; with any other error it shows a failure notice; in
\* both cases loading ends.
C18_PermissionDeniedIsEmpty ==
    [][ \A code \in StoreErrors :
            /\ FetchUsersFail(code) =>
                   /\ ~um'.loading
                   /\ IF code = "permission-denied"
                      THEN um'.users = <<>> /\ toast' = toast
                      ELSE toast' = Toast("Error", "Failed to load users.", 0)
            /\ FetchDocumentsFail(code) =>
                   /\ ~dm'.loading
                   /\ IF code = "permission-denied"
                      THEN dm'.documents = <<>> /\ toast' = toast
                      ELSE toast' = Toast("Error", "Failed to load documents.", 0)
            /\ FetchClinicsFail(code) =>
                   /\ ~cm'.loading
                   /\ IF code = "permission-denied"
                      THEN cm'.clinics = <<>> /\ toast' = toast
                      ELSE toast' = Toast("Error", "Failed to load clinics.", 0) ]_vars

\* The records a step inserts into a collection: those whose id was free.
Inserted(before, after) == {r \in after : r.id \notin Ids(before)}

InitAssignedReached ==
    /\ db.users = {AmyAccount}
    /\ db.documents = {NewDocument(1, <<"D">>, <<Option(AmyAccount)>>, "ann@corp.io")}
    /\ db.clinics = {} /\ user = NoUser /\ adminLocation = "/login"
    /\ dash = DashInit /\ um = UMInit /\ dm = DMInit /\ cm = CMInit
    /\ bulk = BulkIdle /\ updatePromises = {} /\ toast = NoToast

\* C20: no step removes an account id from the store; the documents change
\* only by the admin's addDoc or deleteDoc; and a step of the portal tab
\* (login, the dashboard's fetches, CSV download, image upload, replace and
\* delete, logout) leaves the documents as they are.
C20_PortalLeavesDocuments ==
    [][ /\ Ids(db.users) \subseteq Ids(db'.users)
        /\ db'.documents # db.documents =>
               DMDeleteOk \/ \E id \in 1..MaxDocuments : DMSubmitOk(id)
        /\ (portalVars' # portalVars \/ download'.portal # download.portal) =>
               db'.documents = db.documents ]_vars

\* The portal user has downloaded the CSV, uploaded two images, deleted or
\* replaced one and logged out; the document is still as it was created.
C20_Witness ==
    /\ sessionStorage = <<>> /\ download.portal # <<>> /\ hosted >= 2
    /\ \E r \in db.users : r.email = AmyMail /\ Len(r.images) = 1
    /\ db.documents = {NewDocument(1, <<"D">>, <<Option(AmyAccount)>>, "ann@corp.io")}

\* C21: every account in the store has a role in {admin, user} and a status
\* in {pending, approved, rejected}.
C21_AccountDomains ==
    \A r \in db.users :
        /\ r.role \in {"admin", "user"}
        /\ r.status \in {"pending", "approved", "rejected"}

\* C26 (as stated): every stored account with status 'rejected' has a
\* non-empty rejectionReason and a rejection timestamp, and every account
\* with status 'approved' or 'pending' has neither, whichever operation
\* produced the status.
C26_RejectionFields ==
    \A r \in db.users :
        IF r.status = "rejected"
        THEN /\ r.rejectionReason \notin {Undefined, Null}
             /\ Trim(r.rejectionReason) # <<>>
             /\ r.rejectedAt = ServerTimestamp
        ELSE r.status \in {"approved", "pending"} =>
                 /\ r.rejectionReason \in {Undefined, Null}
                 /\ r.rejectedAt \in {Undefined, Null}

\* C26: an account the dashboard form creates has neither a rejectionReason
\* nor a rejectedAt, whatever status was chosen; a bulk transition that
\* changes an account leaves it with a non-empty reason and a timestamp
\* when the target is 'rejected' and with both set to null otherwise.
C26_TransitionsSetRejectionFields ==
    [][ \A q \in db'.users :
            IF q.id \notin Ids(db.users)
            THEN q.rejectionReason = Undefined /\ q.rejectedAt = Undefined
            ELSE LET r == CHOOSE x \in db.users : x.id = q.id
                 IN  q # r =>
                        IF q.status = "rejected"
                        THEN /\ q.rejectionReason \notin {Undefined, Null}
                             /\ Trim(q.rejectionReason) # <<>>
                             /\ q.rejectedAt = ServerTimestamp
                        ELSE /\ q.status \in {"approved", "pending"}
                             /\ q.rejectionReason = Null
                             /\ q.rejectedAt = Null ]_vars

\* One account was created as 'rejected' and carries no reason; another
\* was created as 'rejected' and then approved in bulk; the page has
\* reported the transition.
C26_Witness ==
    /\ \E r, q \in db.users :
           /\ r.status = "rejected" /\ r.rejectionReason = Undefined
           /\ r.rejectedAt = Undefined
           /\ q.status = "approved" /\ q.rejectionReason = Null /\ q.rejectedAt = Null
    /\ bulk.pc = "idle" /\ updatePromises = {}

\* Some admin page is mounted: it holds state other than its initial one
\* (its mount effect has at least started its fetches).
PageMounted == dash # DashInit \/ um # UMInit \/ dm # DMInit \/ cm # CMInit

\* C22 (as stated): an admin page is mounted only while loading is false
\* and an admin identity is present; while loading is true only the
\* spinner is shown; and with no identity the location is /login and no
\* page is mounted.
C22_GateRedirects ==
    /\ PageMounted => ~loading /\ user # NoUser
    /\ loading => AppContent(loading, user, adminLocation) = "Loader2"
    /\ (~loading /\ user = NoUser) => adminLocation = "/login" /\ ~PageMounted

\* C22: an admin page is mounted only while loading is false and an admin
\* identity is present, and it is the page of the current location; while
\* loading is true only the spinner is shown; with no identity AppContent
\* renders the Login page or NotFound at the unchanged location and no
\* page is mounted; PrivateRoute is never rendered without an identity, so
\* its redirect is never taken.
C22_AdminGate ==
    /\ PageMounted =>
           /\ ~loading /\ user # NoUser /\ adminLocation \in AdminPages
           /\ dash = DashInit \/ adminLocation = "/"
           /\ um = UMInit \/ adminLocation = "/user-management"
           /\ dm = DMInit \/ adminLocation = "/document-management"
           /\ cm = CMInit \/ adminLocation = "/clinic-management"
    /\ loading =>
           /\ AppContent(loading, user, adminLocation) = "Loader2"
           /\ ~PageMounted
    /\ (~loading /\ user = NoUser) =>
           /\ AppContent(loading, user, adminLocation) \in {"Login", "NotFound"}
           /\ ~PageMounted
    /\ AppContent(loading, user, adminLocation) # "null"

\* The tab was opened at /user-management after an admin had created an
\* account, and the auth provider has reported that nobody is signed in.
C22_Witness ==
    /\ ~loading /\ user = NoUser /\ adminLocation = "/user-management"
    /\ db.users # {}

\* The snapshots the running fetchStats has taken so far are what the same
\* queries would return from the store now.
SnapshotsCurrent ==
    LET taken == CASE dash.fetchStats = "users" -> 0
                   [] dash.fetchStats = "pending" -> 1
                   [] dash.fetchStats = "rejected" -> 2
                   [] dash.fetchStats = "documents" -> 3
                   [] OTHER -> 4
    IN  /\ taken >= 1 => dash.usersSnapshot = GetDocs(db.users, StatsUsersQuery(user))
        /\ taken >= 2 => dash.pendingSnapshot = GetDocs(db.users, StatsPendingQuery(user))
        /\ taken >= 3 => dash.rejectedSnapshot = GetDocs(db.users, StatsRejectedQuery(user))

\* The counts of the current admin's records in the store.
TrueStats ==
    [totalUsers |-> Cardinality({r \in db.users : r.createdBy = user}),
     pendingApprovals |->
         Cardinality({r \in db.users : r.createdBy = user /\ r.status = "pending"}),
     rejectedUsers |->
         Cardinality({r \in db.users : r.createdBy = user /\ r.status = "rejected"}),
     totalDocuments |-> Cardinality({d \in db.documents : d.createdBy = user})]

\* C23: a step of fetchStats that follows snapshots which are still current
\* keeps them current, so that when no write falls between the four
\* queries the statistics shown are the true counts of the admin's records
\* and pendingApprovals + rejectedUsers <= totalUsers.  (C23_Witness is a
\* run with a write in between, where the inequality fails.)
C23_StatsWithoutWrites ==
    [][ (dash.fetchStats # "idle" /\ SnapshotsCurrent /\ DashFetchStatsStep) =>
            /\ SnapshotsCurrent'
            /\ dash'.fetchStats = "idle" =>
                   /\ dash'.stats = TrueStats'
                   /\ dash'.stats.pendingApprovals + dash'.stats.rejectedUsers
                          <= dash'.stats.totalUsers ]_vars

\* fetchStats counted no account, the admin then added a pending one with
\* the form of the same page, and the later queries counted it: the
\* dashboard shows more pending accounts than accounts.
C23_Witness ==
    /\ dash.fetchStats = "idle"
    /\ dash.stats.pendingApprovals + dash.stats.rejectedUsers > dash.stats.totalUsers

\* C24: whenever the clinic modal is closed, editingClinic is null and the
\* form fields are reset, so that a form opened by "Add Clinic" inserts a
\* new clinic and only a form opened by Edit updates one.
C24_ClosedModalIsReset ==
    ~cm.isModalOpen => cm.editingClinic = <<>> /\ cm.formData = EmptyClinicForm

\* The account with the given id.
AccountOf(id) == CHOOSE r \in db.users : r.id = id

\* C25: the ids selected on the UserManagement page, and the ids the
\* running handleBulkUpdate patches, are ids of accounts loaded for the
\* current admin, and these accounts are the admin's own, also after
\* another admin has signed out.
C25_SelectionOwned ==
    /\ Range(um.selectedUsers) \subseteq Range(RowIds(um.users))
    /\ Range(bulk.selectedUsers) \subseteq Range(RowIds(um.users))
    /\ \A r \in Range(um.users) : r.createdBy = user
    /\ \A id \in Range(um.selectedUsers) \cup Range(bulk.selectedUsers) :
           id \in Ids(db.users) /\ AccountOf(id).createdBy = user
    /\ bulk.pc # "idle" =>
           \A p \in updatePromises :
               p.batch = "current" => AccountOf(p.userId).createdBy = user

\* Ann and Bob each own an account; Bob, signed in after Ann, has selected
\* his and its rejection has been committed, Ann's is as she created it.
C25_Witness ==
    /\ user = "bob@corp.io"
    /\ \E r, q \in db.users :
           /\ r.createdBy = "ann@corp.io" /\ r.status = "approved"
           /\ q.createdBy = "bob@corp.io" /\ q.status = "rejected"
           /\ um.selectedUsers = <<q.id>>

\* The flag of a form is set exactly while a call of its submit handler is
\* running (the account form has no other record of the call than the flag).
FlagWhileRunning ==
    /\ um.submitting <=> bulk.pc # "idle"
    /\ dm.submitting <=> dm.pc \in {"addDoc", "refetch"}
    /\ cm.submitting <=> cm.pc \in {"updateDoc", "addDoc", "refetch"}
    /\ pd.uploading <=> upload.pc # "idle"
    /\ pl.loading <=> pl.pc # "idle"

C28_HostFailure ==
    [][ /\ upload.pc = "host" =>
               \A r \in db.users : \E q \in db'.users :
                   q.id = r.id /\ q.images = r.images
        /\ (upload.pc = "host" /\ upload'.pc = "idle") =>
               /\ portalToast'.title = "Error"
               /\ portalToast'.text \in {"Invalid API v1 key.", "Failed to upload image."}
               /\ db' = db /\ hosted' = hosted
               /\ pd'.selectedFile = pd.selectedFile
               /\ pd'.editingImage = pd.editingImage
               /\ ~pd'.uploading
               /\ pd'.userImages = pd.userImages ]_vars

\* A replacement failed at the image host with the host's message: the
\* old image is still stored, the file and the replace target are still
\* set, and nothing was added at the host.
C28_Witness ==
    /\ portalToast = Toast("Error", "Invalid API v1 key.", 0)
    /\ upload.pc = "idle" /\ ~pd.uploading
    /\ pd.selectedFile # <<>> /\ pd.editingImage # <<>>
    /\ hosted = 1
    /\ \E r \in db.users : r.images = <<pd.editingImage[1]>>

\* C29: when the last updateDoc of the running batch is fulfilled, the
\* success notice carries the number of selected accounts and the list is
\* fetched again; when that fetch returns, the selection, the action and
\* the reason are cleared and a list that was fetched is the admin's
\* accounts as stored.  When an updateDoc of the running batch is rejected,
\* the selection, the action, the reason and the list stay as they are and
\* no fetch is started.
C29_BulkAftermath ==
    [][ /\ (bulk.pc = "awaitAll" /\ bulk'.pc = "refetch") =>
               /\ toast' = Toast("Success", "user(s) updated successfully!",
                                 Len(bulk.selectedUsers))
               /\ Len(bulk.selectedUsers) > 0
               /\ um'.fetchUsers = "wait" /\ um'.submitting
               /\ um'.selectedUsers = um.selectedUsers
        /\ (bulk.pc = "refetch" /\ bulk'.pc = "idle") =>
               /\ um'.selectedUsers = <<>> /\ um'.bulkAction = ""
               /\ um'.rejectionReason = <<>> /\ ~um'.submitting
               /\ FetchUsersOk => um'.users = GetDocs(db.users, UsersQuery(user))
        /\ (bulk.pc = "awaitAll" /\ bulk'.pc = "idle") =>
               /\ toast' = Toast("Error", "Failed to update users.", 0)
               /\ um'.selectedUsers = um.selectedUsers
               /\ um'.bulkAction = um.bulkAction
               /\ um'.rejectionReason = um.rejectionReason
               /\ um'.users = um.users /\ um'.fetchUsers = "idle"
               /\ ~um'.submitting ]_vars

\* A batch over two accounts has failed and everything has settled: the
\* page still shows both rows as pending and keeps the selection, the
\* action and the reason, while one account is stored as rejected.
C29_Witness ==
    /\ toast = Toast("Error", "Failed to update users.", 0)
    /\ bulk.pc = "idle" /\ updatePromises = {} /\ um.fetchUsers = "idle"
    /\ Len(um.selectedUsers) = 2 /\ um.bulkAction = "rejected"
    /\ um.rejectionReason = <<" ", "n">>
    /\ \A row \in Range(um.users) : row.status = "pending"
    /\ \E r \in db.users : r.status = "rejected"

\* The accounts the store returns for the email the portal session holds.
SessionRecords == GetDocs(db.users, PortalUserDataQuery(sessionStorage[1]))

\* C30: the login query decides on the first record it returns: the user
\* enters, with the email stored, if and only if that record is approved,
\* and is shown that record's status otherwise, whatever the status
\* of the other records with the same email; fetchUserData puts the first
\* record returned for the session's email on the dashboard; and a step of
\* the portal changes the images of that account only.
C30_FirstRecordOnly ==
    [][ /\ (PLQueryOk /\ Len(LookedUp) > 0) =>
               /\ (portalLocation' = "/user-portal-dashboard") <=>
                      LookedUp[1].status = "approved"
               /\ LookedUp[1].status = "approved" =>
                      sessionStorage' = <<Trim(pl.email)>>
               /\ LookedUp[1].status # "approved" =>
                      /\ sessionStorage' = sessionStorage
                      /\ LookedUp[1].status \in Range(pl'.error)
        /\ (FetchUserDataOk /\ Len(SessionRecords) > 0) =>
               /\ pd'.userData = <<SessionRecords[1]>>
               /\ pd'.userImages = SessionRecords[1].images
        /\ \A r \in db.users : \A q \in db'.users :
               (q.id = r.id /\ q.images # r.images) =>
                   /\ pd.userData # <<>> /\ r.id = pd.userData[1].id
                   /\ r.email = sessionStorage[1] ]_vars

\* Two accounts share the email: the one the store returns first is
\* approved, the other is pending.  The user is logged in and has uploaded
\* an image, which went to the first.
C30_Witness ==
    /\ sessionStorage = <<AmyMail>>
    /\ pd.userData # <<>> /\ pd.userData[1].id = 1
    /\ \E r, q \in db.users :
           /\ r.id = 1 /\ r.email = AmyMail /\ r.status = "approved"
           /\ Len(r.images) = 1
           /\ q.id = 2 /\ q.email = AmyMail /\ q.status = "pending"
           /\ q.images = <<>>

====
